---- MODULE Spec2Model ----
(***************************************************************************)
(* State-machine model of the GoStrike native layer (corrreia/gostrike):   *)
(* module discovery and signature scanning (memory_module.cpp), the        *)
(* gamedata database (gameconfig.cpp), the schema resolver (schema.cpp),   *)
(* the funchook detours (chat_manager.cpp, game_functions.cpp), the Go     *)
(* bridge (go_bridge.cpp) and the Metamod plugin glue (gostrike.cpp).      *)
(***************************************************************************)
EXTENDS Integers, Sequences, FiniteSets, TLC

(***************************************************************************)
(* Bounds of the model                                                     *)
(***************************************************************************)
\* longest pattern (in tokens) handed to the scanner
MaxPatLen == 3
\* longest module image (in bytes) the scanner is run against
MaxBufLen == 3
\* number of GameConfig::ResolveSignature calls in one behaviour
MaxResolves == 3
\* number of schema::GetOffset calls in one behaviour
MaxLookups == 2

(***************************************************************************)
(* C strings are sequences of one-character strings; a read at or past the *)
(* end yields the terminator.                                              *)
(***************************************************************************)
NUL == "NUL"
\* the null pointer, as an address and as a char*
NULL == 0
NullStr == << "nullptr" >>

At(s, p) == IF p >= 1 /\ p <= Len(s) THEN s[p] ELSE NUL

HexUpper == <<"0","1","2","3","4","5","6","7","8","9","A","B","C","D","E","F">>
HexLower == <<"0","1","2","3","4","5","6","7","8","9","a","b","c","d","e","f">>

\* a digit reader that knows the upper-case letters only
hexDigit_UpperOnly(c) ==
    IF \E i \in 1..16 : HexUpper[i] = c
    THEN (CHOOSE i \in 1..16 : HexUpper[i] = c) - 1
    ELSE 0

\* the lambda hexDigit of ParseSignature
hexDigit(c) ==
    IF \E i \in 1..16 : HexUpper[i] = c
    THEN (CHOOSE i \in 1..16 : HexUpper[i] = c) - 1
    ELSE IF \E i \in 11..16 : HexLower[i] = c
    THEN (CHOOSE i \in 11..16 : HexLower[i] = c) - 1
    ELSE 0

\* while (*p == ' ') p++;
RECURSIVE SkipSpaces(_, _)
SkipSpaces(sig, p) == IF At(sig, p) = " " THEN SkipSpaces(sig, p + 1) ELSE p

\* the wildcard test of ParseSignature at position p
IsWildcardAt(sig, p) ==
    \/ At(sig, p) = "?"
    \/ (At(sig, p) = "2" /\ At(sig, p + 1) = "A")
    \/ (At(sig, p) = "\\" /\ At(sig, p + 1) = "x"
        /\ At(sig, p + 2) = "2" /\ At(sig, p + 3) = "A")

\* how far the wildcard branch advances p
WildcardAdvance(sig, p) ==
    IF At(sig, p) = "?"
    THEN (IF At(sig, p + 1) = "?" THEN 2 ELSE 1)
    ELSE IF At(sig, p) = "2" THEN 2
    ELSE 4

\* Module::ParseSignature, the loop body from position p0 on; -1 = wildcard
RECURSIVE ParseSignatureFrom(_, _)
ParseSignatureFrom(sig, p0) ==
    IF At(sig, p0) = NUL THEN << >>
    ELSE LET p == SkipSpaces(sig, p0) IN
      IF At(sig, p) = NUL THEN << >>
      ELSE IF IsWildcardAt(sig, p)
      THEN << -1 >> \o ParseSignatureFrom(sig, p + WildcardAdvance(sig, p))
      ELSE LET hi == At(sig, p)
               hasLo == At(sig, p + 1) # NUL /\ At(sig, p + 1) # " "
               lo == IF hasLo THEN At(sig, p + 1) ELSE "0"
               pn == IF hasLo THEN p + 2 ELSE p + 1
           IN << hexDigit(hi) * 16 + hexDigit(lo) >> \o ParseSignatureFrom(sig, pn)

ParseSignature(sig) == ParseSignatureFrom(sig, 1)

(***************************************************************************)
(* The process image: the objects the dynamic loader has mapped, in load   *)
(* order (what dl_iterate_phdr walks). An object is                        *)
(*   [dlpi_name, dlpi_addr, phdr, bytes, exports, global]                  *)
(* where bytes is the content of [lowest segment start, highest segment    *)
(* end) and exports maps exported symbol names to addresses.               *)
(***************************************************************************)
Min(S) == CHOOSE x \in S : \A y \in S : x <= y
Max(S) == CHOOSE x \in S : \A y \in S : x >= y

\* UINTPTR_MAX, scaled to the checker's integer width
UINTPTR_MAX == 2147483647

LoadSegments(info) ==
    { i \in 1..Len(info.phdr) : info.phdr[i].p_type = "PT_LOAD" }
SegStart(info, i) == info.dlpi_addr + info.phdr[i].p_vaddr
SegEnd(info, i) == SegStart(info, i) + info.phdr[i].p_memsz

\* minAddr taken from the first loadable segment alone
MinAddr_FirstSegment(info) ==
    IF LoadSegments(info) = {} THEN UINTPTR_MAX
    ELSE SegStart(info, Min(LoadSegments(info)))

\* minAddr / maxAddr as the loop of DlIterateCallback leaves them
MinAddr(info) ==
    IF LoadSegments(info) = {} THEN UINTPTR_MAX
    ELSE Min({ SegStart(info, i) : i \in LoadSegments(info) })
MaxAddr(info) ==
    IF LoadSegments(info) = {} THEN 0
    ELSE Max({ SegEnd(info, i) : i \in LoadSegments(info) } \cup {0})

\* strrchr(modulePath, '/'): position of the last slash, 0 when there is none
LastSlash(path) ==
    IF \E i \in 1..Len(path) : path[i] = "/"
    THEN Max({ i \in 1..Len(path) : path[i] = "/" })
    ELSE 0
BaseName(path) == SubSeq(path, LastSlash(path) + 1, Len(path))

\* strstr(haystack, needle) != nullptr
StrStr(haystack, needle) ==
    \E i \in 1..(Len(haystack) + 1) :
        \A k \in 1..Len(needle) : At(haystack, i + k - 1) = needle[k]

\* DlIterateCallback returns 1 (stop, ctx filled) for this object
CallbackAccepts(info, targetName) ==
    /\ info.dlpi_name # << >>
    /\ StrStr(BaseName(info.dlpi_name), targetName)
    /\ MinAddr(info) < MaxAddr(info)

\* dl_iterate_phdr(DlIterateCallback, &ctx): index of the object that stops
\* the iteration, 0 when the callback never returns nonzero
DlIteratePhdr(objs, targetName) ==
    IF \E i \in 1..Len(objs) : CallbackAccepts(objs[i], targetName)
    THEN Min({ i \in 1..Len(objs) : CallbackAccepts(objs[i], targetName) })
    ELSE 0

\* a default-constructed Module
NewModule ==
    [ m_name |-> << >>, m_path |-> << >>, m_base |-> NULL, m_size |-> 0,
      m_dlHandle |-> NULL ]

\* dlopen(path, RTLD_NOW | RTLD_NOLOAD): handle of the already mapped object
\* (handles are the positions in the load order)
DlOpenNoLoad(objs, path) ==
    IF \E i \in 1..Len(objs) : objs[i].dlpi_name = path
    THEN Min({ i \in 1..Len(objs) : objs[i].dlpi_name = path })
    ELSE NULL

\* Module::Initialize: [ok, m] = return value and the Module afterwards
Module_Initialize(m, moduleName, objs) ==
    IF moduleName = NullStr THEN [ ok |-> FALSE, m |-> m ]
    ELSE LET hit == DlIteratePhdr(objs, moduleName) IN
      IF hit = 0 THEN [ ok |-> FALSE, m |-> m ]
      ELSE [ ok |-> TRUE,
             m |-> [ m_name |-> moduleName,
                     m_path |-> objs[hit].dlpi_name,
                     m_base |-> MinAddr(objs[hit]),
                     m_size |-> MaxAddr(objs[hit]) - MinAddr(objs[hit]),
                     m_dlHandle |-> DlOpenNoLoad(objs, objs[hit].dlpi_name) ] ]

IsInitialized(m) == m.m_base # NULL

\* the mapped memory an address belongs to: [start, bytes] of the object
\* whose range contains a
ObjectAt(objs, a) ==
    CHOOSE i \in 1..Len(objs) :
        MinAddr(objs[i]) <= a /\ a < MinAddr(objs[i]) + Len(objs[i].bytes)
MemoryAt(objs, a) ==
    [ start |-> MinAddr(objs[ObjectAt(objs, a)]), bytes |-> objs[ObjectAt(objs, a)].bytes ]

\* the byte at address a (*current, current[i])
ReadByte(mem, a) == mem.bytes[a - mem.start + 1]

(***************************************************************************)
(* Signature scanning                                                      *)
(***************************************************************************)
\* TokenAccepts without the wildcard test
TokenAccepts_NoWildcard(sigByte, b) == b = sigByte % 256

\* sigBytes[i] != -1 && current[i] != static_cast<uint8_t>(sigBytes[i]),
\* negated: the pattern element accepts byte b
TokenAccepts(sigByte, b) == sigByte = -1 \/ b = sigByte % 256

\* the full comparison at window start current
MatchAt(mem, sigBytes, current) ==
    \A i \in 1..Len(sigBytes) :
        TokenAccepts(sigBytes[i], ReadByte(mem, current + i - 1))

\* one iteration of the scan loop returns current: the quick check on the
\* first element passes and the full comparison matches
IterationReturns(mem, sigBytes, current) ==
    /\ ~(sigBytes[1] # -1 /\ ReadByte(mem, current) # sigBytes[1] % 256)
    /\ MatchAt(mem, sigBytes, current)

\* ScanFrom that keeps scanning after a hit and returns the last one
ScanFrom_LastHit(mem, sigBytes, current, end) ==
    LET hits == { c \in current..end : IterationReturns(mem, sigBytes, c) }
    IN IF hits = {} THEN NULL ELSE Max(hits)

\* ScanFrom with the loop bound current < end
ScanFrom_StopsEarly(mem, sigBytes, current, end) ==
    LET hits == { c \in current..(end - 1) : IterationReturns(mem, sigBytes, c) }
    IN IF hits = {} THEN NULL ELSE Min(hits)

\* for (current = m_base; current <= end; current++): the first iteration
\* that returns, or nullptr after the loop
ScanFrom(mem, sigBytes, current, end) ==
    LET hits == { c \in current..end : IterationReturns(mem, sigBytes, c) }
    IN IF hits = {} THEN NULL ELSE Min(hits)

\* Module::FindSignature
FindSignature(m, signature, objs) ==
    IF m.m_base = NULL \/ m.m_size = 0 \/ signature = NullStr THEN NULL
    ELSE LET sigBytes == ParseSignature(signature) IN
      IF sigBytes = << >> THEN NULL
      ELSE ScanFrom(MemoryAt(objs, m.m_base), sigBytes,
                    m.m_base, m.m_base + m.m_size - Len(sigBytes))

\* what a read at address a sees: the module's byte, or nothing of the
\* module when a is outside its mapped bytes
Peek(mem, a) ==
    IF a - mem.start + 1 \in 1..Len(mem.bytes) THEN << ReadByte(mem, a) >> ELSE << >>

\* the addresses one iteration of the scan loop reads: *current in the quick
\* check, then current[i] for each non-wildcard element up to and including
\* the first mismatch
WindowReads(mem, sigBytes, current) ==
    IF sigBytes[1] # -1 /\ Peek(mem, current) # << sigBytes[1] % 256 >>
    THEN { current }
    ELSE LET bad == { i \in 1..Len(sigBytes) :
                        sigBytes[i] # -1
                        /\ Peek(mem, current + i - 1) # << sigBytes[i] % 256 >> }
             stop == IF bad = {} THEN Len(sigBytes) ELSE Min(bad)
         IN { current + i - 1 : i \in { j \in 1..stop : sigBytes[j] # -1 } }

\* the window starts the loop visits: up to the first one that matches
ScanWindows(mem, sigBytes, current, end) ==
    LET hits == { c \in current..end :
                    \A i \in 1..Len(sigBytes) :
                        sigBytes[i] = -1
                        \/ Peek(mem, c + i - 1) = << sigBytes[i] % 256 >> }
    IN IF hits = {} THEN current..end ELSE current..Min(hits)

\* an end that leaves the pattern length out
ScanEnd_IgnoresLength(m, sigBytes) == m.m_base + m.m_size - 1

\* uint8_t* end = m_base + m_size - sigLen
ScanEnd(m, sigBytes) == m.m_base + m.m_size - Len(sigBytes)

\* Module::FindSignature, what it looks at: the window starts visited and
\* the addresses read
FindSignatureTrace(m, signature, objs) ==
    IF m.m_base = NULL \/ m.m_size = 0 \/ signature = NullStr
    THEN [ windows |-> {}, reads |-> {} ]
    ELSE LET sigBytes == ParseSignature(signature) IN
      IF sigBytes = << >> THEN [ windows |-> {}, reads |-> {} ]
      ELSE LET mem == MemoryAt(objs, m.m_base)
               windows == ScanWindows(mem, sigBytes, m.m_base, ScanEnd(m, sigBytes))
           IN [ windows |-> windows,
                reads |-> UNION { WindowReads(mem, sigBytes, c) : c \in windows } ]

\* dlsym(handle, name) on one object / dlsym(RTLD_DEFAULT, name)
DlSym(objs, handle, name) ==
    IF name \in DOMAIN objs[handle].exports THEN objs[handle].exports[name] ELSE NULL
DlSymDefault(objs, name) ==
    IF \E i \in 1..Len(objs) : objs[i].global /\ name \in DOMAIN objs[i].exports
    THEN objs[Min({ i \in 1..Len(objs) :
                      objs[i].global /\ name \in DOMAIN objs[i].exports })].exports[name]
    ELSE NULL

\* FindSymbol that asks the module's own export table only
FindSymbol_NoFallback(m, symbolName, objs) ==
    IF symbolName = NullStr \/ m.m_dlHandle = NULL THEN NULL
    ELSE DlSym(objs, m.m_dlHandle, symbolName)

\* Module::FindSymbol
FindSymbol(m, symbolName, objs) ==
    IF symbolName = NullStr THEN NULL
    ELSE IF m.m_dlHandle # NULL /\ DlSym(objs, m.m_dlHandle, symbolName) # NULL
    THEN DlSym(objs, m.m_dlHandle, symbolName)
    ELSE DlSymDefault(objs, symbolName)

(***************************************************************************)
(* State                                                                   *)
(***************************************************************************)
VARIABLES
    loaded,     \* the objects mapped into the process, in load order
    modules,    \* modules::server / engine / tier0
    scanCall,   \* the last Module::FindSignature call: pattern, text, result
    g_gameConfig,   \* the GameConfig instance: signatures, libraries, offsets, cache
    resolveHist,    \* per name: what the ResolveSignature calls so far returned
    offsetCall,     \* the last GameConfig::GetOffset call: its name and result
    bridge,     \* the statics of go_bridge.cpp
    goProc,     \* the Go library as the loader and the Go runtime hold it
    initAttempt,    \* the last GoBridge_Init call that got past its first check
    playerNotices,  \* the slots of the player cache's range whose most recent
                    \* notification, since GoBridge_Init last reset the cache,
                    \* was a connect
    goCalls,    \* the Go exports invoked since that call began
    boundaryCall,  \* the last call across the boundary: its argument and effect
    plugin,     \* the statics of gostrike.cpp and what the host has hooked
    pluginCall, \* the last plugin entry point or hook that ran, and its outcome
    handshake,  \* whether the loaded library's ABI version was read and matched,
                \* and the exports invoked in a library before that
    chatManager,    \* the statics of chat_manager.cpp
    damageHook,     \* the damage-hook statics of game_functions.cpp
    funchooks,      \* funchook's handles and the patched targets
    detourHist,     \* per detour: the last install or removal and its target
    detourStack,    \* the replacement invocations in progress on the host's
                    \* thread, innermost last, and the last one that returned
    gameFunctions,  \* the offset and function statics of game_functions.cpp
    gameFuncCall,   \* the last game-function wrapper that ran: what the host
                    \* held for its slot, its slot index and the calls it made
    gs_pSchemaSystem,   \* the engine's schema system as the plugin holds it
    s_cache,        \* the cache of schema.cpp: key -> {offset, networked}
    schemaCall,     \* the last schema::GetOffset call and its result
    schemaCalls,    \* how many schema::GetOffset calls were made
    schemaHist      \* per (class, field) pair that was looked up: the value last returned

scanVars == << scanCall >>
procVars == << loaded, modules >>
configVars == << g_gameConfig, resolveHist, offsetCall >>
bridgeVars == << bridge, goProc, initAttempt, playerNotices, goCalls, handshake,
                boundaryCall >>
detourVars == << chatManager, damageHook, funchooks, detourHist, detourStack,
                gameFunctions, gameFuncCall >>
schemaVars == << gs_pSchemaSystem, s_cache, schemaCall, schemaCalls, schemaHist >>
pluginVars == << plugin, pluginCall >>
vars == << loaded, modules, scanCall, g_gameConfig, resolveHist, offsetCall,
           bridge, goProc, initAttempt, playerNotices, goCalls, handshake, boundaryCall,
           chatManager, damageHook, funchooks, detourHist, detourStack,
           gameFunctions, gameFuncCall,
           gs_pSchemaSystem, s_cache, schemaCall, schemaCalls, schemaHist,
           plugin, pluginCall >>

\* what an operation of one component leaves alone
notScan == << procVars, configVars, bridgeVars, detourVars, schemaVars, pluginVars >>
notProc == << scanVars, configVars, bridgeVars, detourVars, schemaVars, pluginVars >>
notConfig == << procVars, scanVars, bridgeVars, detourVars, schemaVars, pluginVars >>
notBridge == << procVars, scanVars, configVars, detourVars, schemaVars, pluginVars >>
notSchema == << procVars, scanVars, configVars, bridgeVars, detourVars, pluginVars >>

(***************************************************************************)
(* The well-known modules (namespace modules) and the names InitializeAll  *)
(* looks them up by                                                        *)
(***************************************************************************)
ModuleIds == { "server", "engine", "tier0" }

LibServerSo == << "l","i","b","s","e","r","v","e","r",".","s","o" >>
LibEngine2So == << "l","i","b","e","n","g","i","n","e","2",".","s","o" >>
LibTier0So == << "l","i","b","t","i","e","r","0",".","s","o" >>

ModuleFile(id) ==
    CASE id = "server" -> LibServerSo
      [] id = "engine" -> LibEngine2So
      [] id = "tier0" -> LibTier0So

(***************************************************************************)
(* GameConfig (gameconfig.cpp). The unordered_maps are functions whose     *)
(* domain is the set of keys present.                                      *)
(***************************************************************************)
EmptyMap == [ x \in {} |-> NULL ]
MapPut(f, k, v) == [ x \in (DOMAIN f) \cup {k} |-> IF x = k THEN v ELSE f[x] ]

NewGameConfig ==
    [ m_signatures |-> EmptyMap, m_libraries |-> EmptyMap, m_offsets |-> EmptyMap,
      m_addressCache |-> EmptyMap ]

\* the library name of no entry (GetLibrary returning nullptr)
NoLibrary == "nullptr"
NoModule == "nullptr"

\* GameConfig::Init on a parsed document, whose items map keys to
\*   [ signatures : <<>> or <<[library : <<>> or <<name>>, linux : <<>> or <<text>>]>>,
\*     offsets    : <<>> or <<[linux : <<>> or <<[isInt, val]>>]>> ];
\* a document that is not readable stands for a null path, a file that does
\* not open or a parse error, which all return false before any table is
\* touched
Unreadable == [ readable |-> FALSE, items |-> EmptyMap ]

KeysWithLibrary(data) ==
    { k \in DOMAIN data : data[k].signatures # << >>
                          /\ data[k].signatures[1].library # << >> }
KeysWithSignature(data) ==
    { k \in DOMAIN data : data[k].signatures # << >>
                          /\ data[k].signatures[1].linux # << >> }
KeysWithOffset(data) ==
    { k \in DOMAIN data : /\ data[k].offsets # << >>
                          /\ data[k].offsets[1].linux # << >>
                          /\ data[k].offsets[1].linux[1].isInt }

GameConfig_Init(cfg, file) ==
    IF ~file.readable THEN [ ok |-> FALSE, cfg |-> cfg ]
    ELSE LET data == file.items IN
         [ ok |-> TRUE,
           cfg |-> [ cfg EXCEPT
             !.m_libraries =
                 [ k \in (DOMAIN @) \cup KeysWithLibrary(data) |->
                     IF k \in KeysWithLibrary(data)
                     THEN data[k].signatures[1].library[1] ELSE @[k] ],
             !.m_signatures =
                 [ k \in (DOMAIN @) \cup KeysWithSignature(data) |->
                     IF k \in KeysWithSignature(data)
                     THEN data[k].signatures[1].linux[1] ELSE @[k] ],
             !.m_offsets =
                 [ k \in (DOMAIN @) \cup KeysWithOffset(data) |->
                     IF k \in KeysWithOffset(data)
                     THEN data[k].offsets[1].linux[1].val ELSE @[k] ] ] ]

GetLibrary(cfg, name) ==
    IF name \in DOMAIN cfg.m_libraries THEN cfg.m_libraries[name] ELSE NoLibrary

GetSignature(cfg, name) ==
    IF name \in DOMAIN cfg.m_signatures THEN cfg.m_signatures[name] ELSE NullStr

NoOffsetCall == [ made |-> FALSE, name |-> "", ret |-> 0 ]

\* GetOffset answering 0 for a name without an offset
GameConfig_GetOffset_ZeroWhenAbsent(cfg, name) ==
    IF name \in DOMAIN cfg.m_offsets THEN cfg.m_offsets[name] ELSE 0

GameConfig_GetOffset(cfg, name) ==
    IF name \in DOMAIN cfg.m_offsets THEN cfg.m_offsets[name] ELSE -1

IsSymbol(sig) == sig # NullStr /\ At(sig, 1) = "@"

\* GameConfig::GetModule: the id of the well-known module, or NoModule
GetModule(cfg, name) ==
    LET lib == GetLibrary(cfg, name) IN
      IF lib = NoLibrary THEN NoModule
      ELSE IF lib \in ModuleIds THEN lib
      ELSE NoModule

\* ResolveSignature without the cache lookup at its head
GameConfig_ResolveSignature_NoCacheHit(cfg, name, mods, objs) ==
    LET module == GetModule(cfg, name) IN
      IF module = NoModule \/ ~IsInitialized(mods[module])
      THEN [ ret |-> NULL, cfg |-> cfg, scans |-> 0, symbols |-> 0 ]
      ELSE LET sig == GetSignature(cfg, name) IN
        IF sig = NullStr
        THEN [ ret |-> NULL, cfg |-> cfg, scans |-> 0, symbols |-> 0 ]
        ELSE LET addr == IF IsSymbol(sig)
                         THEN FindSymbol(mods[module], Tail(sig), objs)
                         ELSE FindSignature(mods[module], sig, objs)
             IN [ ret |-> addr,
                  cfg |-> [ cfg EXCEPT !.m_addressCache = MapPut(@, name, addr) ],
                  scans |-> IF IsSymbol(sig) THEN 0 ELSE 1,
                  symbols |-> IF IsSymbol(sig) THEN 1 ELSE 0 ]

\* ResolveSignature starting the cache afresh when the lookup fails
GameConfig_ResolveSignature_ClearsOnMiss(cfg, name, mods, objs) ==
    IF name \in DOMAIN cfg.m_addressCache
    THEN [ ret |-> cfg.m_addressCache[name], cfg |-> cfg, scans |-> 0, symbols |-> 0 ]
    ELSE LET r == GameConfig_ResolveSignature_NoCacheHit(cfg, name, mods, objs) IN
      IF r.ret # NULL THEN r
      ELSE [ r EXCEPT !.cfg.m_addressCache = MapPut(EmptyMap, name, NULL) ]

\* GameConfig::ResolveSignature: the returned address, the GameConfig
\* afterwards, and how many scans and symbol lookups the call performed
GameConfig_ResolveSignature(cfg, name, mods, objs) ==
    IF name \in DOMAIN cfg.m_addressCache
    THEN [ ret |-> cfg.m_addressCache[name], cfg |-> cfg, scans |-> 0, symbols |-> 0 ]
    ELSE LET module == GetModule(cfg, name) IN
      IF module = NoModule \/ ~IsInitialized(mods[module])
      THEN [ ret |-> NULL, cfg |-> cfg, scans |-> 0, symbols |-> 0 ]
      ELSE LET sig == GetSignature(cfg, name) IN
        IF sig = NullStr
        THEN [ ret |-> NULL, cfg |-> cfg, scans |-> 0, symbols |-> 0 ]
        ELSE LET addr == IF IsSymbol(sig)
                         THEN FindSymbol(mods[module], Tail(sig), objs)
                         ELSE FindSignature(mods[module], sig, objs)
             IN [ ret |-> addr,
                  cfg |-> [ cfg EXCEPT !.m_addressCache = MapPut(@, name, addr) ],
                  scans |-> IF IsSymbol(sig) THEN 0 ELSE 1,
                  symbols |-> IF IsSymbol(sig) THEN 1 ELSE 0 ]

(***************************************************************************)
(* The Go bridge (go_bridge.cpp). The Go library is a shared object the    *)
(* loader reference-counts: while some handle is open, dlopen of its path  *)
(* returns the image already mapped; the last dlclose unmaps it and the Go *)
(* runtime state goes with it.                                             *)
(***************************************************************************)
GOSTRIKE_ABI_VERSION == 1
GS_OK == 0
GS_ERR_INIT_FAILED == -1
PlayerCacheSize == 64
GoLibHandle == 1

RequiredSymbols ==
    << "GoStrike_Init", "GoStrike_Shutdown", "GoStrike_OnTick", "GoStrike_OnEvent",
       "GoStrike_OnPlayerConnect", "GoStrike_OnPlayerDisconnect",
       "GoStrike_OnMapChange", "GoStrike_OnChatMessage", "GoStrike_GetLastError",
       "GoStrike_ClearLastError", "GoStrike_GetABIVersion",
       "GoStrike_RegisterCallbacks" >>

OptionalSymbols ==
    { "GoStrike_OnEntityCreated", "GoStrike_OnEntitySpawned", "GoStrike_OnEntityDeleted" }

RequiredSet == { RequiredSymbols[i] : i \in 1..Len(RequiredSymbols) }
GoSymbols == RequiredSet \cup OptionalSymbols

\* the statics of go_bridge.cpp before GoBridge_Init has ever run
NewBridge ==
    [ g_goLib |-> NULL, g_initialized |-> FALSE,
      pfn |-> [ s \in GoSymbols |-> FALSE ],
      g_playerCache |-> [ i \in 0..(PlayerCacheSize - 1) |-> 0 ],
      g_currentMap |-> << "u","n","k","n","o","w","n" >> ]

\* the Go runtime of a freshly mapped library
FreshRuntime == [ initialised |-> FALSE, callbacks |-> FALSE ]
NoImage == [ exports |-> {}, abi |-> 0 ]
NoGo == [ refs |-> 0, image |-> NoImage, rt |-> FreshRuntime ]
NoFile == [ exists |-> FALSE, image |-> NoImage ]

\* dlopen(libPath, RTLD_NOW | RTLD_GLOBAL)
DlOpenGo(go, file) ==
    IF go.refs > 0 THEN [ handle |-> GoLibHandle, go |-> [ go EXCEPT !.refs = @ + 1 ] ]
    ELSE IF ~file.exists THEN [ handle |-> NULL, go |-> go ]
    ELSE [ handle |-> GoLibHandle,
           go |-> [ refs |-> 1, image |-> file.image, rt |-> FreshRuntime ] ]

\* dlclose(g_goLib)
DlCloseGo(go) ==
    IF go.refs <= 1 THEN NoGo ELSE [ go EXCEPT !.refs = @ - 1 ]

\* a symbol check that leaves out the last LOAD_GO_SYMBOL
FirstMissing_WithoutLast(exports) ==
    LET missing == { i \in 1..(Len(RequiredSymbols) - 1) :
                        RequiredSymbols[i] \notin exports }
    IN IF missing = {} THEN 0 ELSE Min(missing)

\* the required entry points LOAD_GO_SYMBOL gets to, in order: it stops at
\* the first one dlsym does not find
FirstMissing(exports) ==
    LET missing == { i \in 1..Len(RequiredSymbols) : RequiredSymbols[i] \notin exports }
    IN IF missing = {} THEN 0 ELSE Min(missing)

LoadRequired(pfn, exports) ==
    LET stop == FirstMissing(exports)
        reached(s) == \E i \in 1..Len(RequiredSymbols) :
                          RequiredSymbols[i] = s /\ (stop = 0 \/ i <= stop)
    IN [ s \in DOMAIN pfn |-> IF reached(s) THEN s \in exports ELSE pfn[s] ]

LoadOptional(pfn, exports) ==
    [ s \in DOMAIN pfn |-> IF s \in OptionalSymbols THEN s \in exports ELSE pfn[s] ]

GoBridge_Init_NoVersionCheck(b, go, file, initErr) ==
    LET b1 == [ b EXCEPT !.g_playerCache = [ i \in DOMAIN @ |-> -1 ] ]
        o == DlOpenGo(go, file)
        b2 == [ b1 EXCEPT !.g_goLib = o.handle ]
        exports == o.go.image.exports
        b3 == [ b2 EXCEPT !.pfn = LoadRequired(@, exports) ]
        b4 == [ b3 EXCEPT !.pfn = LoadOptional(@, exports) ]
    IN IF b.g_initialized THEN [ ret |-> TRUE, bridge |-> b, go |-> go, called |-> {} ]
       ELSE IF o.handle = NULL THEN
           [ ret |-> FALSE, bridge |-> b2, go |-> o.go, called |-> {} ]
       ELSE IF FirstMissing(exports) # 0 THEN
           [ ret |-> FALSE, bridge |-> b3, go |-> o.go, called |-> {} ]
       ELSE IF initErr # GS_OK THEN
           [ ret |-> FALSE, bridge |-> [ b4 EXCEPT !.g_goLib = NULL ],
             go |-> DlCloseGo(o.go),
             called |-> { "GoStrike_GetABIVersion", "GoStrike_Init",
                          "GoStrike_GetLastError" } ]
       ELSE
           [ ret |-> TRUE, bridge |-> [ b4 EXCEPT !.g_initialized = TRUE ],
             go |-> [ o.go EXCEPT !.rt.initialised = TRUE ],
             called |-> { "GoStrike_GetABIVersion", "GoStrike_Init" } ]

\* an init that resets the player cache before it looks at g_initialized
GoBridge_Init_ResetsCacheFirst(b, go, file, initErr) ==
    LET r == GoBridge_Init_NoVersionCheck(b, go, file, initErr)
    IN IF b.g_initialized
       THEN [ r EXCEPT !.bridge.g_playerCache = [ i \in DOMAIN @ |-> -1 ] ]
       ELSE r

\* GoBridge_Init(): file is what FindGoLibrary's path holds on disk, initErr
\* what GoStrike_Init answers if it gets called
GoBridge_Init(b, go, file, initErr) ==
    LET b1 == [ b EXCEPT !.g_playerCache = [ i \in DOMAIN @ |-> -1 ] ]
        o == DlOpenGo(go, file)
        b2 == [ b1 EXCEPT !.g_goLib = o.handle ]
        exports == o.go.image.exports
        b3 == [ b2 EXCEPT !.pfn = LoadRequired(@, exports) ]
        b4 == [ b3 EXCEPT !.pfn = LoadOptional(@, exports) ]
    IN IF b.g_initialized THEN [ ret |-> TRUE, bridge |-> b, go |-> go, called |-> {} ]
       ELSE IF o.handle = NULL THEN
           [ ret |-> FALSE, bridge |-> b2, go |-> o.go, called |-> {} ]
       ELSE IF FirstMissing(exports) # 0 THEN
           [ ret |-> FALSE, bridge |-> b3, go |-> o.go, called |-> {} ]
       ELSE IF o.go.image.abi # GOSTRIKE_ABI_VERSION THEN
           [ ret |-> FALSE, bridge |-> [ b4 EXCEPT !.g_goLib = NULL ],
             go |-> DlCloseGo(o.go), called |-> { "GoStrike_GetABIVersion" } ]
       ELSE IF initErr # GS_OK THEN
           [ ret |-> FALSE, bridge |-> [ b4 EXCEPT !.g_goLib = NULL ],
             go |-> DlCloseGo(o.go),
             called |-> { "GoStrike_GetABIVersion", "GoStrike_Init",
                          "GoStrike_GetLastError" } ]
       ELSE
           [ ret |-> TRUE, bridge |-> [ b4 EXCEPT !.g_initialized = TRUE ],
             go |-> [ o.go EXCEPT !.rt.initialised = TRUE ],
             called |-> { "GoStrike_GetABIVersion", "GoStrike_Init" } ]

\* GoBridge_RegisterCallbacks() without the call at go_bridge.cpp:716: the
\* table is filled and never handed over
GoBridge_RegisterCallbacks_NoHandoff(b, go) ==
    [ bridge |-> b, go |-> go, called |-> {} ]

\* GoBridge_RegisterCallbacks()
GoBridge_RegisterCallbacks(b, go) ==
    IF ~b.g_initialized \/ ~b.pfn["GoStrike_RegisterCallbacks"]
    THEN [ bridge |-> b, go |-> go, called |-> {} ]
    ELSE [ bridge |-> b, go |-> [ go EXCEPT !.rt.callbacks = TRUE ],
           called |-> { "GoStrike_RegisterCallbacks" } ]

\* a shutdown that unloads the library and leaves g_initialized set
GoBridge_Shutdown_StaysInitialized(b, go) ==
    IF ~b.g_initialized THEN [ bridge |-> b, go |-> go, called |-> {} ]
    ELSE [ bridge |-> [ b EXCEPT !.g_goLib = NULL,
                                 !.pfn = [ s \in DOMAIN @ |->
                                             IF s \in RequiredSet THEN FALSE ELSE @[s] ] ],
           go |-> DlCloseGo([ go EXCEPT !.rt = FreshRuntime ]),
           called |-> { "GoStrike_Shutdown" } ]

\* GoBridge_Shutdown()
GoBridge_Shutdown(b, go) ==
    IF ~b.g_initialized THEN [ bridge |-> b, go |-> go, called |-> {} ]
    ELSE LET stopped == IF b.pfn["GoStrike_Shutdown"]
                        THEN [ go EXCEPT !.rt = FreshRuntime ] ELSE go
             closed == IF b.g_goLib # NULL THEN DlCloseGo(stopped) ELSE stopped
         IN [ bridge |-> [ b EXCEPT !.g_goLib = NULL, !.g_initialized = FALSE,
                                    !.pfn = [ s \in DOMAIN @ |->
                                                IF s \in RequiredSet THEN FALSE ELSE @[s] ] ],
              go |-> closed,
              called |-> IF b.pfn["GoStrike_Shutdown"] THEN { "GoStrike_Shutdown" } ELSE {} ]

\* GoBridge_OnTick(deltaTime)
GoBridge_OnTick(b, go) ==
    IF ~b.g_initialized \/ ~b.pfn["GoStrike_OnTick"]
    THEN [ bridge |-> b, go |-> go, called |-> {} ]
    ELSE [ bridge |-> b, go |-> go, called |-> { "GoStrike_OnTick" } ]

\* a gs_player_t* argument: null, or a player record with its slot field
NullPlayer == [ isNull |-> TRUE, slot |-> 0 ]
PlayerIn(slot) == [ isNull |-> FALSE, slot |-> slot ]

\* GoBridge_OnPlayerConnect(player): the cache entry of an in-range slot
\* becomes a copy of *player; notice is what the Go runtime was told
GoBridge_OnPlayerConnect(b, go, player) ==
    IF ~b.g_initialized \/ ~b.pfn["GoStrike_OnPlayerConnect"] \/ player.isNull
    THEN [ bridge |-> b, go |-> go, called |-> {}, notice |-> << >> ]
    ELSE [ bridge |-> IF player.slot >= 0 /\ player.slot < PlayerCacheSize
                      THEN [ b EXCEPT !.g_playerCache[player.slot] = player.slot ]
                      ELSE b,
           go |-> go, called |-> { "GoStrike_OnPlayerConnect" },
           notice |-> << [ connect |-> TRUE, slot |-> player.slot ] >> ]

\* a disconnect forwarder that leaves the cache entry as it is
GoBridge_OnPlayerDisconnect_KeepsEntry(b, go, slot) ==
    IF ~b.g_initialized \/ ~b.pfn["GoStrike_OnPlayerDisconnect"]
    THEN [ bridge |-> b, go |-> go, called |-> {}, notice |-> << >> ]
    ELSE [ bridge |-> b, go |-> go, called |-> { "GoStrike_OnPlayerDisconnect" },
           notice |-> << [ connect |-> FALSE, slot |-> slot ] >> ]

\* GoBridge_OnPlayerDisconnect(slot, reason)
GoBridge_OnPlayerDisconnect(b, go, slot) ==
    IF ~b.g_initialized \/ ~b.pfn["GoStrike_OnPlayerDisconnect"]
    THEN [ bridge |-> b, go |-> go, called |-> {}, notice |-> << >> ]
    ELSE [ bridge |-> IF slot >= 0 /\ slot < PlayerCacheSize
                      THEN [ b EXCEPT !.g_playerCache[slot] = -1 ]
                      ELSE b,
           go |-> go, called |-> { "GoStrike_OnPlayerDisconnect" },
           notice |-> << [ connect |-> FALSE, slot |-> slot ] >> ]

\* the player cache as the callbacks of the table read it
PlayerCacheBase == 20480

\* CB_GetPlayer(slot): the address of the cache entry, or null
CB_GetPlayer(b, slot) ==
    IF slot < 0 \/ slot >= PlayerCacheSize THEN NULL
    ELSE IF b.g_playerCache[slot] < 0 THEN NULL
    ELSE PlayerCacheBase + slot

\* the loop of CB_GetPlayerCount and CB_GetAllPlayers from index i on: the
\* indices of the entries whose slot field is not negative
RECURSIVE ValidEntriesFrom(_, _)
ValidEntriesFrom(b, i) ==
    IF i >= PlayerCacheSize THEN << >>
    ELSE ( IF b.g_playerCache[i] >= 0 THEN << i >> ELSE << >> )
         \o ValidEntriesFrom(b, i + 1)

\* CB_GetPlayerCount()
CB_GetPlayerCount(b) == Len(ValidEntriesFrom(b, 0))

\* CB_GetAllPlayers(outSlots): what it returns and what it writes to
\* outSlots[0..]
CB_GetAllPlayers(b, outSlots) ==
    IF outSlots = NULL THEN [ ret |-> 0, out |-> << >> ]
    ELSE [ ret |-> Len(ValidEntriesFrom(b, 0)), out |-> ValidEntriesFrom(b, 0) ]

GS_MAX_PATH_LEN == 512
GS_EVENT_CONTINUE == 0
GS_EVENT_CHANGED == 1
GS_EVENT_HANDLED == 2
GS_EVENT_STOP == 3

\* the gs_event_t no call built
NoEvent == [ name |-> NullStr, name_len |-> 0, can_modify |-> FALSE ]

\* GoBridge_FireEvent(name, event, isPost), goResult being what
\* GoStrike_OnEvent answers when it is invoked
GoBridge_FireEvent(b, go, name, isPost, goResult) ==
    IF ~b.g_initialized \/ ~b.pfn["GoStrike_OnEvent"] \/ name = NullStr
    THEN [ ret |-> GS_EVENT_CONTINUE, bridge |-> b, go |-> go, called |-> {},
           event |-> NoEvent ]
    ELSE [ ret |-> goResult, bridge |-> b, go |-> go,
           called |-> { "GoStrike_OnEvent" },
           event |-> [ name |-> name, name_len |-> Len(name),
                       can_modify |-> ~isPost ] ]

\* GoBridge_OnMapChange(mapName): the cached map name is updated whether or
\* not the bridge is initialized
GoBridge_OnMapChange(b, go, mapName) ==
    IF mapName = NullStr
    THEN [ bridge |-> b, go |-> go, called |-> {} ]
    ELSE LET kept == IF Len(mapName) < GS_MAX_PATH_LEN THEN Len(mapName)
                     ELSE GS_MAX_PATH_LEN - 1
             b2 == [ b EXCEPT !.g_currentMap = SubSeq(mapName, 1, kept) ] IN
         IF ~b.g_initialized \/ ~b.pfn["GoStrike_OnMapChange"]
         THEN [ bridge |-> b2, go |-> go, called |-> {} ]
         ELSE [ bridge |-> b2, go |-> go, called |-> { "GoStrike_OnMapChange" } ]

\* GoBridge_OnEntityCreated / OnEntitySpawned / OnEntityDeleted: forwarded
\* when the optional entry point symbol was found
GoBridge_OnEntity(b, go, symbol) ==
    IF ~b.g_initialized \/ ~b.pfn[symbol]
    THEN [ bridge |-> b, go |-> go, called |-> {} ]
    ELSE [ bridge |-> b, go |-> go, called |-> { symbol } ]

GoBridge_OnEntityCreated(b, go) == GoBridge_OnEntity(b, go, "GoStrike_OnEntityCreated")
GoBridge_OnEntitySpawned(b, go) == GoBridge_OnEntity(b, go, "GoStrike_OnEntitySpawned")
GoBridge_OnEntityDeleted(b, go) == GoBridge_OnEntity(b, go, "GoStrike_OnEntityDeleted")

\* GoBridge_GetLastError(): lastError is what GoStrike_GetLastError would
\* hand out
GoBridge_GetLastError(b, go, lastError) ==
    IF ~b.g_initialized \/ ~b.pfn["GoStrike_GetLastError"] THEN NullStr
    ELSE lastError

\* a chat forwarder that passes a null message on
GoBridge_OnChatMessage_NoNullGuard(b, go, message, goResult) ==
    IF ~b.g_initialized \/ ~b.pfn["GoStrike_OnChatMessage"]
    THEN [ ret |-> FALSE, bridge |-> b, go |-> go, called |-> {} ]
    ELSE [ ret |-> goResult, bridge |-> b, go |-> go,
           called |-> { "GoStrike_OnChatMessage" } ]

\* GoBridge_OnChatMessage(playerSlot, message), goResult being what
\* GoStrike_OnChatMessage answers when it is invoked
GoBridge_OnChatMessage(b, go, message, goResult) ==
    IF ~b.g_initialized \/ ~b.pfn["GoStrike_OnChatMessage"] \/ message = NullStr
    THEN [ ret |-> FALSE, bridge |-> b, go |-> go, called |-> {} ]
    ELSE [ ret |-> goResult, bridge |-> b, go |-> go,
           called |-> { "GoStrike_OnChatMessage" } ]

\* the slots last told connected, after a forwarder with answer r: only
\* the player forwarders tell the Go runtime of a slot, and only slots of
\* the cache's range are kept
AfterNotice(notices, r) ==
    IF "notice" \notin DOMAIN r THEN notices
    ELSE IF r.notice = << >> THEN notices
    ELSE IF r.notice[1].slot < 0 \/ r.notice[1].slot >= PlayerCacheSize THEN notices
    ELSE IF r.notice[1].connect THEN notices \cup { r.notice[1].slot }
    ELSE notices \ { r.notice[1].slot }

\* what is known of the last GoBridge_Init call: its inputs and its answer
NoAttempt ==
    [ made |-> FALSE, already |-> FALSE, opened |-> FALSE, image |-> NoImage,
      initErr |-> GS_OK, ret |-> FALSE ]

\* what is known of the last call across the boundary, a forwarder of the
\* bridge or a callback of the table: which one, whether a name or pointer
\* argument of it was null, the exports it invoked, whether it changed any
\* static of the plugin or the Go runtime, what it returned, and the
\* addresses it read and wrote
NoForward ==
    [ op |-> "none", nullArg |-> FALSE, called |-> {}, changed |-> FALSE,
      ret |-> 0, reads |-> {}, writes |-> {} ]

Forwarded(op, nullArg, b, go, r, ret) ==
    [ op |-> op, nullArg |-> nullArg, called |-> r.called,
      changed |-> (r.bridge # b \/ r.go # go), ret |-> ret,
      reads |-> {}, writes |-> {} ]

\* the version handshake of the library now mapped: whether
\* GoStrike_GetABIVersion has been read and found equal to
\* GOSTRIKE_ABI_VERSION since it was mapped, and the other exports that were
\* invoked while that was not so
NoHandshake == [ verified |-> FALSE, unverified |-> {} ]

\* the handshake after a bridge function that invoked the exports in called
\* and left the loader in state go
AfterCalls(h, go, called) ==
    [ verified |-> h.verified /\ go.refs > 0,
      unverified |-> h.unverified \cup
                       ( IF h.verified THEN {}
                         ELSE called \ { "GoStrike_GetABIVersion" } ) ]

\* the handshake after GoBridge_Init: dlopen of a library not yet mapped
\* starts it unverified, and the version read at go_bridge.cpp:626 verifies
\* it when equal
AfterInit(h, go, opened, r) ==
    LET carried == h.verified /\ go.refs > 0
        equal == /\ "GoStrike_GetABIVersion" \in r.called
                 /\ opened.image.abi = GOSTRIKE_ABI_VERSION
    IN [ verified |-> (carried \/ equal) /\ r.go.refs > 0,
         unverified |-> h.unverified \cup
                          ( IF carried \/ equal THEN {}
                            ELSE r.called \ { "GoStrike_GetABIVersion" } ) ]

\* the statics of gostrike.cpp before the first Load, with what the host
\* holds of the plugin: the SourceHook hooks, the entity listener, the
\* metamod listeners whose AllPluginsLoaded is still to come, whether the
\* plugin is loaded, how often Load has had GoStrike_RegisterCallbacks
\* invoked since the bridge became initialized, and how many more times the
\* pair of FireEvent hooks was added to the event manager than removed
NewPlugin ==
    [ g_loadCount |-> 0, g_bServerFullyInitialized |-> FALSE, m_bLateLoad |-> FALSE,
      sourceHooks |-> FALSE, g_iLoadEventsFromFileHookId |-> FALSE,
      g_bFireEventHooked |-> FALSE, gs_pGameEventManager |-> FALSE,
      entityListener |-> FALSE, listeners |-> 0, loaded |-> FALSE, handoffs |-> 0,
      fireEventHooks |-> 0 ]

\* what is known of the last entry point or hook of the plugin: its answer,
\* the hook result it gave the host, what the Go runtime answered, whether
\* Go was invoked, with which can_modify, whether Go was invoked before it
\* had the callback table, and the funchook handles still installed when an
\* Unload shut the bridge down, and the error buffer of a Load that failed:
\* whether the host passed one, its size, the step of Load that failed and
\* the text the buffer holds afterwards
NotWritten == << "?" >>
NoError == [ buffer |-> FALSE, maxlen |-> 0, step |-> "none", text |-> NotWritten ]
\* what a detour replacement did: whether it asked the Go runtime, whether
\* the call counts as handled, how often the original function ran, and how
\* the call through the original pointer went
NoDetourCall ==
    [ ready |-> FALSE, forwarded |-> FALSE, handled |-> FALSE, original |-> 0,
      outcome |-> "none" ]
NoPluginCall ==
    [ op |-> "none", ret |-> FALSE, meta |-> "none", goResult |-> 0,
      invoked |-> FALSE, can_modify |-> FALSE, early |-> FALSE, installed |-> {},
      error |-> NoError, detour |-> NoDetourCall ]

PluginIdle ==
    /\ plugin = NewPlugin
    /\ pluginCall = NoPluginCall

BridgeUnloaded ==
    /\ bridge = NewBridge
    /\ goProc = NoGo
    /\ initAttempt = NoAttempt
    /\ playerNotices = {}
    /\ goCalls = {}
    /\ handshake = NoHandshake
    /\ boundaryCall = NoForward

(***************************************************************************)
(* Detours (chat_manager.cpp, game_functions.cpp). funchook keeps, per     *)
(* handle, the target and the bytes the target held when it was prepared;  *)
(* text maps a target address to the handles whose jump is written over it *)
(* (empty: the original code runs).                                        *)
(***************************************************************************)
TrampolineBase == 32768
TextMsgHandle == 1
HostSayName == "Host_Say"
TakeDamageOldName == "CBaseEntity_TakeDamageOld"

NewFunchooks == [ next |-> 1, hooks |-> EmptyMap, text |-> EmptyMap ]
TextAt(fh, a) == IF a \in DOMAIN fh.text THEN fh.text[a] ELSE << >>
TrampolineOf(h) == TrampolineBase + h

\* funchook_create(): a fresh handle, or NULL
funchook_create(fh, ok) ==
    IF ok
    THEN [ handle |-> fh.next,
           fh |-> [ fh EXCEPT !.next = @ + 1,
                              !.hooks = MapPut(@, fh.next,
                                  [ state |-> "created", target |-> NULL,
                                    saved |-> << >> ]) ] ]
    ELSE [ handle |-> NULL, fh |-> fh ]

\* funchook_prepare(h, &target, hook): remembers the target and its present
\* bytes and hands back the trampoline through the target pointer
funchook_prepare(fh, h, target, ok) ==
    IF ~ok \/ fh.hooks[h].state # "created"
    THEN [ rv |-> -1, fh |-> fh, trampoline |-> NULL ]
    ELSE [ rv |-> 0,
           fh |-> [ fh EXCEPT !.hooks[h] = [ state |-> "prepared", target |-> target,
                                             saved |-> TextAt(fh, target) ] ],
           trampoline |-> TrampolineOf(h) ]

\* funchook_install(h, 0): writes the jump to the hook over the target
funchook_install(fh, h, ok) ==
    IF ~ok \/ fh.hooks[h].state # "prepared"
    THEN [ rv |-> -1, fh |-> fh ]
    ELSE [ rv |-> 0,
           fh |-> [ fh EXCEPT !.hooks[h].state = "installed",
                              !.text = MapPut(@, fh.hooks[h].target,
                                  Append(TextAt(fh, fh.hooks[h].target), h)) ] ]

\* funchook_uninstall(h, 0): writes the remembered bytes back
funchook_uninstall(fh, h) ==
    IF fh.hooks[h].state # "installed" THEN fh
    ELSE [ fh EXCEPT !.hooks[h].state = "prepared",
                     !.text = MapPut(@, fh.hooks[h].target, fh.hooks[h].saved) ]

\* funchook_destroy(h): refused while installed
funchook_destroy(fh, h) ==
    IF fh.hooks[h].state = "installed" THEN fh
    ELSE [ fh EXCEPT !.hooks = [ k \in (DOMAIN @) \ { h } |-> @[k] ] ]

\* what a call through the function pointer ptr runs: the original function
\* when ptr is the trampoline of a hook prepared on pristine bytes or the
\* address of a target that is not redirected; the replacement again when
\* the bytes behind ptr jump to it; a fault when ptr is null. A trampoline
\* whose hook was destroyed is freed memory: it may still run or fault.
CallOutcomes(fh, ptr) ==
    IF ptr = NULL THEN { "fault" }
    ELSE IF ptr > TrampolineBase
    THEN IF ptr - TrampolineBase \in DOMAIN fh.hooks
         THEN IF fh.hooks[ptr - TrampolineBase].saved = << >>
              THEN { "original" } ELSE { "reentered" }
         ELSE { "original", "fault" }
    ELSE IF TextAt(fh, ptr) = << >> THEN { "original" } ELSE { "reentered" }

\* msg.substr(1, msg.size() - 2) for a message in double quotes
StripQuotes(msg) ==
    IF Len(msg) >= 2 /\ msg[1] = "\"" /\ msg[Len(msg)] = "\""
    THEN SubSeq(msg, 2, Len(msg) - 1)
    ELSE msg

\* the body of DetourHostSay up to the calls of s_pOriginalHostSay: the
\* answer of the chat forwarder, if asked, and whether the original is called
HostSayReplacement(b, go, pController, argc, rawMsg, goResult) ==
    LET skip == \/ pController = NULL \/ argc < 2
                \/ rawMsg = NullStr \/ rawMsg = << >>
                \/ StripQuotes(rawMsg) = << >>
        r == IF skip THEN [ ret |-> FALSE, bridge |-> b, go |-> go, called |-> {} ]
             ELSE GoBridge_OnChatMessage(b, go, StripQuotes(rawMsg), goResult)
    IN [ r |-> r, forwarded |-> ~skip, callsOriginal |-> skip \/ ~r.ret ]

\* the body of DetourTakeDamageOld, result being what GoBridge_OnTakeDamage
\* answers
TakeDamageOldReplacement(entity, damageInfo, result) ==
    LET skip == entity = NULL \/ damageInfo = NULL
    IN [ forwarded |-> ~skip,
         handled |-> ~skip /\ result >= GS_EVENT_HANDLED,
         callsOriginal |-> skip \/ ~(result >= GS_EVENT_HANDLED) ]

NewChatManager ==
    [ s_pTextMsg |-> NULL, s_pOriginalHostSay |-> NULL, s_pFunchook |-> NULL ]
NewDamageHook == [ s_pOriginalTakeDamageOld |-> NULL, s_pDamageHook |-> NULL ]

\* ChatManager_Initialize(): env says whether gs_pNetworkMessages is set and
\* knows TextMsg, and what funchook answers
ChatManager_Initialize(chat, cfg, mods, objs, fh, env) ==
    LET chat1 == IF env.netMessages = "none" THEN chat
                 ELSE [ chat EXCEPT !.s_pTextMsg =
                          IF env.netMessages = "found" THEN TextMsgHandle ELSE NULL ]
        hostSaySig == GetSignature(cfg, HostSayName)
        r == GameConfig_ResolveSignature(cfg, HostSayName, mods, objs)
        c == funchook_create(fh, env.createOk)
        p == funchook_prepare(c.fh, c.handle, r.ret, env.prepareOk)
        i == funchook_install(p.fh, c.handle, env.installOk)
    IN IF hostSaySig = NullStr THEN [ chat |-> chat1, cfg |-> cfg, fh |-> fh ]
       ELSE IF r.ret = NULL THEN [ chat |-> chat1, cfg |-> r.cfg, fh |-> fh ]
       ELSE IF c.handle = NULL THEN
           [ chat |-> [ chat1 EXCEPT !.s_pOriginalHostSay = r.ret, !.s_pFunchook = NULL ],
             cfg |-> r.cfg, fh |-> c.fh ]
       ELSE IF p.rv # 0 THEN
           [ chat |-> [ chat1 EXCEPT !.s_pOriginalHostSay = NULL, !.s_pFunchook = NULL ],
             cfg |-> r.cfg, fh |-> funchook_destroy(p.fh, c.handle) ]
       ELSE IF i.rv # 0 THEN
           [ chat |-> [ chat1 EXCEPT !.s_pOriginalHostSay = NULL, !.s_pFunchook = NULL ],
             cfg |-> r.cfg, fh |-> funchook_destroy(i.fh, c.handle) ]
       ELSE
           [ chat |-> [ chat1 EXCEPT !.s_pOriginalHostSay = p.trampoline,
                                     !.s_pFunchook = c.handle ],
             cfg |-> r.cfg, fh |-> i.fh ]

\* ChatManager_Shutdown()
ChatManager_Shutdown(chat, fh) ==
    IF chat.s_pFunchook = NULL THEN [ chat |-> chat, fh |-> fh ]
    ELSE [ chat |-> [ chat EXCEPT !.s_pFunchook = NULL, !.s_pOriginalHostSay = NULL ],
           fh |-> funchook_destroy(funchook_uninstall(fh, chat.s_pFunchook),
                                   chat.s_pFunchook) ]

\* GameFunc_InitDamageHook()
GameFunc_InitDamageHook(dmg, cfg, mods, objs, fh, env) ==
    LET r == GameConfig_ResolveSignature(cfg, TakeDamageOldName, mods, objs)
        c == funchook_create(fh, env.createOk)
        p == funchook_prepare(c.fh, c.handle, r.ret, env.prepareOk)
        i == funchook_install(p.fh, c.handle, env.installOk)
    IN IF r.ret = NULL THEN [ dmg |-> dmg, cfg |-> r.cfg, fh |-> fh ]
       ELSE IF c.handle = NULL THEN
           [ dmg |-> [ s_pOriginalTakeDamageOld |-> r.ret, s_pDamageHook |-> NULL ],
             cfg |-> r.cfg, fh |-> c.fh ]
       ELSE IF p.rv # 0 THEN
           [ dmg |-> [ s_pOriginalTakeDamageOld |-> NULL, s_pDamageHook |-> NULL ],
             cfg |-> r.cfg, fh |-> funchook_destroy(p.fh, c.handle) ]
       ELSE IF i.rv # 0 THEN
           [ dmg |-> [ s_pOriginalTakeDamageOld |-> NULL, s_pDamageHook |-> NULL ],
             cfg |-> r.cfg, fh |-> funchook_destroy(i.fh, c.handle) ]
       ELSE
           [ dmg |-> [ s_pOriginalTakeDamageOld |-> p.trampoline,
                       s_pDamageHook |-> c.handle ],
             cfg |-> r.cfg, fh |-> i.fh ]

\* GameFunc_ShutdownDamageHook()
GameFunc_ShutdownDamageHook(dmg, fh) ==
    IF dmg.s_pDamageHook = NULL THEN [ dmg |-> dmg, fh |-> fh ]
    ELSE [ dmg |-> [ s_pOriginalTakeDamageOld |-> NULL, s_pDamageHook |-> NULL ],
           fh |-> funchook_destroy(funchook_uninstall(fh, dmg.s_pDamageHook),
                                   dmg.s_pDamageHook) ]

\* per detour, the last initialize/shutdown that acted on a registration
NoDetourOp == [ op |-> "none", target |-> NULL ]

\* no replacement is running and none has returned
NoReturn ==
    [ made |-> FALSE, fn |-> "none", args |-> << >>, msg |-> << >>, asked |-> FALSE,
      answer |-> << >>, handled |-> FALSE, original |-> << >>, inner |-> << >> ]
NoInvocations == [ frames |-> << >>, last |-> NoReturn ]

\* the statics of game_functions.cpp as the library is loaded
NewGameFunctions ==
    [ s_offsetRespawn |-> -1, s_offsetChangeTeam |-> -1, s_offsetTeleport |-> -1,
      s_offsetCommitSuicide |-> -1, s_offsetSetModel |-> -1,
      s_offsetRemoveWeapons |-> -1,
      s_offsetDamageAttacker |-> 12, s_offsetDamage |-> 80, s_offsetDamageType |-> 96,
      s_fnSwitchTeam |-> NULL ]

\* no wrapper has run
NoWrapperCall == [ fn |-> "none", host |-> << >>, offset |-> -1, calls |-> << >> ]

DetoursIdle ==
    /\ chatManager = NewChatManager
    /\ damageHook = NewDamageHook
    /\ funchooks = NewFunchooks
    /\ detourHist = [ d \in { "chat", "damage" } |-> NoDetourOp ]
    /\ detourStack = NoInvocations
    /\ gameFunctions = NewGameFunctions
    /\ gameFuncCall = NoWrapperCall

(***************************************************************************)
(* The schema resolver (schema.cpp). A 32-bit hash is kept as two 16-bit   *)
(* halves [hi, lo]; the 64-bit cache key (h1 << 32) | h2 is the tuple of   *)
(* its four 16-bit digits. The host's reflection data is                   *)
(*   system : [present, scopes : module name -> scope, global : <<>> or    *)
(*             <<scope>>],   scope : class name -> class info,             *)
(*   class info : [m_pFields, m_pBaseClasses], a null pointer being << >>, *)
(*   field : [m_pszName, m_nSingleInheritanceOffset, m_pStaticMetadata].   *)
(***************************************************************************)
FNV_OFFSET_HI == 33052
FNV_OFFSET_LO == 40389
FNV_PRIME_LO == 403

Digits == << "0","1","2","3","4","5","6","7","8","9" >>
UpperCase == << "A","B","C","D","E","F","G","H","I","J","K","L","M",
               "N","O","P","Q","R","S","T","U","V","W","X","Y","Z" >>
LowerCase == << "a","b","c","d","e","f","g","h","i","j","k","l","m",
               "n","o","p","q","r","s","t","u","v","w","x","y","z" >>
IndexIn(table, c) == CHOOSE i \in 1..Len(table) : table[i] = c
Occurs(table, c) == \E i \in 1..Len(table) : table[i] = c

\* static_cast<uint8_t>(*str), for the characters names are written in
Ascii(c) ==
    CASE c = "." -> 46
      [] c = "_" -> 95
      [] Occurs(Digits, c) -> 47 + IndexIn(Digits, c)
      [] Occurs(UpperCase, c) -> 64 + IndexIn(UpperCase, c)
      [] Occurs(LowerCase, c) -> 96 + IndexIn(LowerCase, c)

\* a ^ b on non-negative integers
RECURSIVE Xor(_, _)
Xor(a, b) ==
    IF a = 0 THEN b
    ELSE IF b = 0 THEN a
    ELSE 2 * Xor(a \div 2, b \div 2) + ((a + b) % 2)

\* hash ^= c; hash *= 0x01000193;  (0x01000193 = 2^24 + 403, modulo 2^32)
FnvStep(h, c) ==
    LET lo1 == Xor(h.lo, c)
        p == lo1 * FNV_PRIME_LO
    IN [ hi |-> (h.hi * FNV_PRIME_LO + (p \div 65536) + (lo1 % 256) * 256) % 65536,
         lo |-> p % 65536 ]

RECURSIVE FnvFrom(_, _, _)
FnvFrom(h, str, p) ==
    IF p > Len(str) THEN h ELSE FnvFrom(FnvStep(h, Ascii(str[p])), str, p + 1)

FnvHash(str) == FnvFrom([ hi |-> FNV_OFFSET_HI, lo |-> FNV_OFFSET_LO ], str, 1)

CombinedHash(className, fieldName) ==
    LET h1 == FnvHash(className)
        h2 == FnvHash(fieldName)
    IN << h1.hi, h1.lo, h2.hi, h2.lo >>

SchemaKey(offset, networked) == [ offset |-> offset, networked |-> networked ]
\* the value {0, false}
NoSchemaKey == SchemaKey(0, FALSE)

MNetworkEnable == << "M","N","e","t","w","o","r","k","E","n","a","b","l","e" >>

IsFieldNetworked(field) ==
    \E i \in 1..Len(field.m_pStaticMetadata) :
        /\ field.m_pStaticMetadata[i].m_pszName # NullStr
        /\ field.m_pStaticMetadata[i].m_pszName = MNetworkEnable

ServerDll == << "s","e","r","v","e","r",".","d","l","l" >>

NullSchemaSystem == [ present |-> FALSE, scopes |-> EmptyMap, global |-> << >> ]

FindTypeScopeForModule(sys, name) ==
    IF name \in DOMAIN sys.scopes THEN << sys.scopes[name] >> ELSE << >>

GlobalTypeScope(sys) == sys.global

FindDeclaredClass(scope, className) ==
    IF className \in DOMAIN scope THEN << scope[className] >> ELSE << >>

\* the field loops of GetOffset: the first field, from index i on, whose name
\* is non-null and equal to fieldName, as << key >>; << >> when there is none
RECURSIVE SearchFields(_, _, _)
SearchFields(fields, fieldName, i) ==
    IF i > Len(fields) THEN << >>
    ELSE IF fields[i].m_pszName # NullStr /\ fields[i].m_pszName = fieldName
    THEN << SchemaKey(fields[i].m_nSingleInheritanceOffset,
                      IsFieldNetworked(fields[i])) >>
    ELSE SearchFields(fields, fieldName, i + 1)

\* schema::Initialize
schema_Initialize(cache) == EmptyMap

\* a store that keeps only the entry written last
CacheStore_KeepsLatestOnly(cache, key, v) == MapPut(EmptyMap, key, v)

\* s_cache[key] = result;
CacheStore(cache, key, v) == MapPut(cache, key, v)

\* schema::GetOffset without the step to the base class
schema_GetOffset_NoBaseWalk(cache, sys, className, fieldName) ==
    IF className = NullStr \/ fieldName = NullStr
    THEN [ ret |-> NoSchemaKey, cache |-> cache, consulted |-> FALSE ]
    ELSE
    LET key == CombinedHash(className, fieldName)
        cached(v) == [ ret |-> v, cache |-> CacheStore(cache, key, v), consulted |-> TRUE ]
    IN
    IF key \in DOMAIN cache
    THEN [ ret |-> cache[key], cache |-> cache, consulted |-> FALSE ]
    ELSE IF ~sys.present
    THEN [ ret |-> NoSchemaKey, cache |-> cache, consulted |-> FALSE ]
    ELSE
    LET so == FindTypeScopeForModule(sys, LibServerSo)
        pScope == IF so = << >> THEN FindTypeScopeForModule(sys, ServerDll) ELSE so
    IN
    IF pScope = << >>
    THEN [ ret |-> NoSchemaKey, cache |-> cache, consulted |-> TRUE ]
    ELSE
    LET inModule == FindDeclaredClass(pScope[1], className)
        pGlobal == GlobalTypeScope(sys)
        pClassInfo == IF inModule = << >> /\ pGlobal # << >>
                      THEN FindDeclaredClass(pGlobal[1], className)
                      ELSE inModule
    IN
    IF pClassInfo = << >> THEN cached(NoSchemaKey)
    ELSE
    LET own == SearchFields(pClassInfo[1].m_pFields, fieldName, 1) IN
    IF own # << >> THEN cached(own[1])
    ELSE cached(NoSchemaKey)

\* schema::GetOffset: the value returned, the cache afterwards and whether
\* the host's schema system was asked
schema_GetOffset(cache, sys, className, fieldName) ==
    IF className = NullStr \/ fieldName = NullStr
    THEN [ ret |-> NoSchemaKey, cache |-> cache, consulted |-> FALSE ]
    ELSE
    LET key == CombinedHash(className, fieldName)
        cached(v) == [ ret |-> v, cache |-> CacheStore(cache, key, v), consulted |-> TRUE ]
    IN
    IF key \in DOMAIN cache
    THEN [ ret |-> cache[key], cache |-> cache, consulted |-> FALSE ]
    ELSE IF ~sys.present
    THEN [ ret |-> NoSchemaKey, cache |-> cache, consulted |-> FALSE ]
    ELSE
    LET so == FindTypeScopeForModule(sys, LibServerSo)
        pScope == IF so = << >> THEN FindTypeScopeForModule(sys, ServerDll) ELSE so
    IN
    IF pScope = << >>
    THEN [ ret |-> NoSchemaKey, cache |-> cache, consulted |-> TRUE ]
    ELSE
    LET inModule == FindDeclaredClass(pScope[1], className)
        pGlobal == GlobalTypeScope(sys)
        pClassInfo == IF inModule = << >> /\ pGlobal # << >>
                      THEN FindDeclaredClass(pGlobal[1], className)
                      ELSE inModule
    IN
    IF pClassInfo = << >> THEN cached(NoSchemaKey)
    ELSE
    LET own == SearchFields(pClassInfo[1].m_pFields, fieldName, 1) IN
    IF own # << >> THEN cached(own[1])
    ELSE
    LET bases == pClassInfo[1].m_pBaseClasses
        baseClass == IF bases = << >> THEN << >> ELSE bases[1].m_pClass
        inBase == IF baseClass # << >> /\ baseClass[1].m_pFields # << >>
                  THEN SearchFields(baseClass[1].m_pFields, fieldName, 1)
                  ELSE << >>
    IN
    IF inBase # << >> THEN cached(inBase[1]) ELSE cached(NoSchemaKey)

\* the last schema::GetOffset call: arguments, whether gs_pSchemaSystem was
\* set when it ran, what it returned, whether it asked the schema system,
\* and << the value the latest earlier call for the same pair returned >>
NoSchemaCall ==
    [ made |-> FALSE, className |-> NullStr, fieldName |-> NullStr,
      available |-> FALSE, ret |-> NoSchemaKey, consulted |-> FALSE,
      earlier |-> << >> ]

SchemaIdle ==
    /\ gs_pSchemaSystem = NullSchemaSystem
    /\ s_cache = EmptyMap
    /\ schemaCall = NoSchemaCall
    /\ schemaCalls = 0
    /\ schemaHist = EmptyMap

(***************************************************************************)
(* Textual patterns. A token is a byte written as two hex digits (upper or *)
(* lower case) or a wildcard in one of its notations.                      *)
(***************************************************************************)
\* the byte values of the images and patterns (0x2A, 0xE5)
ScanBytes == { 42, 229 }
WildForms == { << "?" >>, << "?", "?" >>, << "\\", "x", "2", "A" >> }

HasLetter(b) == (b \div 16) >= 10 \/ (b % 16) >= 10

ByteTokens ==
    { [ kind |-> "byte", val |-> b, upper |-> u, form |-> << >> ] :
        b \in ScanBytes, u \in BOOLEAN } \
    { [ kind |-> "byte", val |-> b, upper |-> FALSE, form |-> << >> ] :
        b \in { x \in ScanBytes : ~HasLetter(x) } }
WildTokens ==
    { [ kind |-> "wild", val |-> 0, upper |-> TRUE, form |-> f ] : f \in WildForms }
Tokens == ByteTokens \cup WildTokens

TokenText(t) ==
    IF t.kind = "wild" THEN t.form
    ELSE IF t.upper
    THEN << HexUpper[(t.val \div 16) + 1], HexUpper[(t.val % 16) + 1] >>
    ELSE << HexLower[(t.val \div 16) + 1], HexLower[(t.val % 16) + 1] >>

\* the tokens separated by single spaces
RECURSIVE PatternText(_)
PatternText(toks) ==
    IF toks = << >> THEN << >>
    ELSE IF Len(toks) = 1 THEN TokenText(toks[1])
    ELSE TokenText(toks[1]) \o << " " >> \o PatternText(Tail(toks))

SeqsUpTo(S, n) == UNION { [1..k -> S] : k \in 1..n }

Patterns == SeqsUpTo(Tokens, MaxPatLen)
Buffers == SeqsUpTo(ScanBytes, MaxBufLen)

NoExports == [ x \in {} |-> NULL ]

\* the main executable: dl_iterate_phdr reports it with an empty name
ExeObject ==
    [ dlpi_name |-> << >>, dlpi_addr |-> 1024,
      phdr |-> << [ p_type |-> "PT_LOAD", p_vaddr |-> 0, p_memsz |-> 1 ] >>,
      bytes |-> << 0 >>, exports |-> NoExports, global |-> TRUE ]

\* libserver.so mapped at 0x1000 with the given content
ServerObject(buf, exports) ==
    [ dlpi_name |-> << "/", "g", "/" >> \o LibServerSo, dlpi_addr |-> 4096,
      phdr |-> << [ p_type |-> "PT_DYNAMIC", p_vaddr |-> 0, p_memsz |-> 1 ],
                  [ p_type |-> "PT_LOAD", p_vaddr |-> 0, p_memsz |-> Len(buf) ] >>,
      bytes |-> buf, exports |-> exports, global |-> TRUE ]

(***************************************************************************)
(* The scanner driven directly: Module::Initialize on the well-known       *)
(* modules and Module::FindSignature with every bounded pattern            *)
(***************************************************************************)
NoScan == [ done |-> FALSE, base |-> NULL, size |-> 0,
            tokens |-> << >>, arg |-> NullStr, ret |-> NULL,
            windows |-> {}, reads |-> {}, parsed |-> << >> ]

InitScan ==
    /\ loaded \in { << ExeObject, ServerObject(buf, NoExports) >> : buf \in Buffers }
    /\ modules = [ id \in ModuleIds |-> NewModule ]
    /\ scanCall \in { [ NoScan EXCEPT !.tokens = toks, !.arg = PatternText(toks) ] :
                        toks \in Patterns }
    /\ g_gameConfig = NewGameConfig
    /\ resolveHist = EmptyMap
    /\ offsetCall = NoOffsetCall
    /\ BridgeUnloaded
    /\ DetoursIdle
    /\ SchemaIdle
    /\ PluginIdle

\* Module::Initialize(name) on one of the well-known modules
ModuleInitialize(id) ==
    /\ modules' = [ modules EXCEPT
                      ![id] = Module_Initialize(modules[id], ModuleFile(id), loaded).m ]
    /\ UNCHANGED << loaded, notProc >>

\* Module::FindSignature(scanCall.arg) on module id
ModuleFindSignature(id) ==
    /\ scanCall' = [ scanCall EXCEPT
                       !.done = TRUE,
                       !.base = modules[id].m_base, !.size = modules[id].m_size,
                       !.ret = FindSignature(modules[id], scanCall.arg, loaded),
                       !.windows =
                           FindSignatureTrace(modules[id], scanCall.arg, loaded).windows,
                       !.reads =
                           FindSignatureTrace(modules[id], scanCall.arg, loaded).reads ]
    /\ UNCHANGED notScan

NextScan ==
    \/ \E id \in ModuleIds : ModuleInitialize(id)
    \/ \E id \in ModuleIds : ModuleFindSignature(id)

SpecScan == InitScan /\ [][NextScan]_vars

(***************************************************************************)
(* Properties of the scanner (SpecScan)                                    *)
(***************************************************************************)
\* the scanned module's bytes at the time of the recorded call
ScannedBytes ==
    [ i \in 1..scanCall.size |->
        ReadByte(MemoryAt(loaded, scanCall.base), scanCall.base + i - 1) ]

IsWildcardFree(toks) == \A i \in 1..Len(toks) : toks[i].kind = "byte"
HasWildcard(toks) == \E i \in 1..Len(toks) : toks[i].kind = "wild"
\* some byte 0x2A of the pattern is written as the upper-case token 2A
HasUpper2A(toks) ==
    \E i \in 1..Len(toks) : toks[i].kind = "byte" /\ toks[i].val = 42 /\ toks[i].upper

\* zero-based offsets at which buf equals toks on all its byte tokens
MatchOffsets(buf, toks) ==
    { o \in 0..(Len(buf) - Len(toks)) :
        \A k \in 1..Len(toks) : toks[k].kind = "byte" => buf[o + k] = toks[k].val }

ScanOnInitialized == scanCall.done /\ scanCall.base # NULL

ScanFindsUniqueOrNothing ==
    LET occ == MatchOffsets(ScannedBytes, scanCall.tokens) IN
      /\ Cardinality(occ) = 1 => scanCall.ret = scanCall.base + Min(occ)
      /\ occ = {} => scanCall.ret = NULL

\* C1 as stated: for every wildcard-free pattern of two-digit hex tokens, a
\* scan of a buffer with exactly one occurrence returns that occurrence's
\* address, and a scan of a buffer with no occurrence returns null.
C1_AnyByteValue ==
    (ScanOnInitialized /\ IsWildcardFree(scanCall.tokens)) => ScanFindsUniqueOrNothing

\* C1 amended: the same for every wildcard-free pattern in which no byte 0x2A
\* is written as the upper-case token "2A" (which the parser reads as a
\* wildcard): exactly one occurrence gives its address, none gives null.
C1_UniqueOccurrenceFound ==
    (ScanOnInitialized /\ IsWildcardFree(scanCall.tokens) /\ ~HasUpper2A(scanCall.tokens))
        => ScanFindsUniqueOrNothing

\* a two-byte pattern with a lower-case 2a found at its only occurrence, which
\* is not at the module base
C1_Witness ==
    /\ ScanOnInitialized
    /\ IsWildcardFree(scanCall.tokens) /\ ~HasUpper2A(scanCall.tokens)
    /\ Len(scanCall.tokens) = 2
    /\ \E k \in 1..2 : scanCall.tokens[k].val = 42
    /\ MatchOffsets(ScannedBytes, scanCall.tokens) = { 1 }
    /\ scanCall.ret = scanCall.base + 1

ScenarioBytes ==
    [ i \in 1..1280 |-> CASE i = 289 -> 85 [] i = 290 -> 72 [] i = 291 -> 34
                          [] i = 292 -> 229 [] OTHER -> 0 ]

CreateInterface == << "C","r","e","a","t","e","I","n","t","e","r","f","a","c","e" >>

ScenarioServer ==
    ServerObject(ScenarioBytes, [ n \in { CreateInterface } |-> 4608 ])

EngineObject ==
    [ dlpi_name |-> << "/", "g", "/" >> \o LibEngine2So, dlpi_addr |-> 16384,
      phdr |-> << [ p_type |-> "PT_LOAD", p_vaddr |-> 0, p_memsz |-> 2 ] >>,
      bytes |-> << 85, 72 >>, exports |-> NoExports, global |-> TRUE ]

GameObjects == { ScenarioServer, EngineObject }

SigEntry(lib, text) ==
    [ signatures |-> << [ library |-> lib, linux |-> text ] >>, offsets |-> << >> ]

\* "55 48 ?? E5", "22 E5", "48 22", "E5 55", "55", "@CreateInterface"
Sig_55_48_w_E5 == << "5","5"," ","4","8"," ","?","?"," ","E","5" >>
Sig_22_E5 == << "2","2"," ","E","5" >>
Sig_48_22 == << "4","8"," ","2","2" >>
Sig_E5_55 == << "E","5"," ","5","5" >>
Sig_55 == << "5","5" >>
Sig_AtCreateInterface == << "@" >> \o CreateInterface

\* gamedata.json as first written
GameData1 ==
    [ readable |-> TRUE,
      items |->
        [ k \in { "Foo", "Sym", "Miss", "NoLinux", "BadLib" } |->
            CASE k = "Foo" -> SigEntry(<< "server" >>, << Sig_55_48_w_E5 >>)
              [] k = "Sym" -> SigEntry(<< "server" >>, << Sig_AtCreateInterface >>)
              [] k = "Miss" -> SigEntry(<< "engine" >>, << Sig_E5_55 >>)
              [] k = "NoLinux" ->
                   [ signatures |-> << [ library |-> << "server" >>, linux |-> << >> ] >>,
                     offsets |-> << [ linux |-> << [ isInt |-> TRUE, val |-> 7 ] >> ] >> ]
              [] k = "BadLib" -> SigEntry(<< "client" >>, << Sig_55 >>) ] ]

\* gamedata.json after an edit: new patterns for Foo and NoLinux
GameData2 ==
    [ readable |-> TRUE,
      items |->
        [ k \in { "Foo", "NoLinux" } |->
            CASE k = "Foo" -> SigEntry(<< "server" >>, << Sig_22_E5 >>)
              [] k = "NoLinux" -> SigEntry(<< "server" >>, << Sig_48_22 >>) ] ]

GameDataFiles == { GameData1, GameData2, Unreadable }

\* the names ResolveSignature is called with; Absent is in no gamedata file
ResolveNames == { "Foo", "Sym", "Miss", "NoLinux", "BadLib", "Absent" }

NoCalls == [ calls |-> 0, first |-> NULL, last |-> NULL, everNull |-> FALSE,
             scans |-> 0, symbols |-> 0 ]
HistOf(name) == IF name \in DOMAIN resolveHist THEN resolveHist[name] ELSE NoCalls

RECURSIVE SumOver(_, _)
SumOver(f, S) ==
    IF S = {} THEN 0
    ELSE LET x == CHOOSE y \in S : TRUE IN f[x] + SumOver(f, S \ {x})
TotalResolves ==
    SumOver([ n \in DOMAIN resolveHist |-> resolveHist[n].calls ], DOMAIN resolveHist)

InitConfig ==
    /\ loaded = << ExeObject >>
    /\ modules = [ id \in ModuleIds |-> NewModule ]
    /\ scanCall = NoScan
    /\ g_gameConfig = NewGameConfig
    /\ resolveHist = EmptyMap
    /\ offsetCall = NoOffsetCall
    /\ BridgeUnloaded
    /\ DetoursIdle
    /\ SchemaIdle
    /\ PluginIdle

\* the host process maps one of the game libraries
MapLibrary(obj) ==
    /\ \A i \in 1..Len(loaded) : loaded[i] # obj
    /\ loaded' = Append(loaded, obj)
    /\ UNCHANGED << modules, notProc >>

\* g_gameConfig.Init(path) on one of the gamedata files
GameConfigInit(file) ==
    /\ g_gameConfig' = GameConfig_Init(g_gameConfig, file).cfg
    /\ UNCHANGED << resolveHist, offsetCall, notConfig >>

\* g_gameConfig.ResolveSignature(name)
ResolveSignature(name) ==
    /\ TotalResolves < MaxResolves
    /\ LET r == GameConfig_ResolveSignature(g_gameConfig, name, modules, loaded)
           h == HistOf(name)
       IN /\ g_gameConfig' = r.cfg
          /\ resolveHist' =
               MapPut(resolveHist, name,
                      [ calls |-> h.calls + 1,
                        first |-> IF h.calls = 0 THEN r.ret ELSE h.first,
                        last |-> r.ret,
                        everNull |-> h.everNull \/ r.ret = NULL,
                        scans |-> h.scans + r.scans,
                        symbols |-> h.symbols + r.symbols ])
    /\ UNCHANGED << offsetCall, notConfig >>

\* g_gameConfig.GetOffset(name)
GetOffset(name) ==
    /\ offsetCall' = [ made |-> TRUE, name |-> name,
                       ret |-> GameConfig_GetOffset(g_gameConfig, name) ]
    /\ UNCHANGED << g_gameConfig, resolveHist, notConfig >>

NextConfig ==
    \/ \E obj \in GameObjects : MapLibrary(obj)
    \/ \E id \in ModuleIds : ModuleInitialize(id)
    \/ \E file \in GameDataFiles : GameConfigInit(file)
    \/ \E name \in ResolveNames : ResolveSignature(name)

SpecConfig == InitConfig /\ [][NextConfig]_vars

(***************************************************************************)
(* Properties of the gamedata database (SpecConfig)                        *)
(***************************************************************************)
\* C3: a name whose first ResolveSignature call returned a non-null address A
\* gets A from every later call, and at most one signature scan or symbol
\* lookup is ever performed for it.
C3_ResolvedOnceThenCached ==
    \A n \in DOMAIN resolveHist :
        resolveHist[n].first # NULL =>
            /\ resolveHist[n].last = resolveHist[n].first
            /\ resolveHist[n].scans + resolveHist[n].symbols <= 1

\* the worked example: server at 0x1000 with 0x500 bytes, "Foo" resolved to
\* 0x1120 twice with a single scan, the second call made after the gamedata
\* file was reloaded with another pattern for Foo
C3_Witness ==
    /\ modules["server"].m_base = 4096 /\ modules["server"].m_size = 1280
    /\ "Foo" \in DOMAIN resolveHist
    /\ resolveHist["Foo"].calls = 2
    /\ resolveHist["Foo"].first = 4384 /\ resolveHist["Foo"].last = 4384
    /\ resolveHist["Foo"].scans = 1
    /\ g_gameConfig.m_signatures["Foo"] = Sig_22_E5

\* C4: once ResolveSignature(name) has returned null, whatever the reason,
\* every later ResolveSignature(name) returns null as well.
C4_FailureIsPermanent ==
    \A n \in DOMAIN resolveHist :
        resolveHist[n].everNull => resolveHist[n].last = NULL

\* C10: after any ResolveSignature(name) call the address cache holds an entry
\* for name that records the outcome of the call, success or failure.
C10_EveryOutcomeCached ==
    \A n \in DOMAIN resolveHist :
        /\ n \in DOMAIN g_gameConfig.m_addressCache
        /\ g_gameConfig.m_addressCache[n] = resolveHist[n].last

\* C12: no step removes an entry of the address cache or changes its value,
\* whether the entry holds an address or null.
C12_AddressCacheAppendOnly ==
    [][ \A n \in DOMAIN g_gameConfig.m_addressCache :
            /\ n \in DOMAIN g_gameConfig'.m_addressCache
            /\ g_gameConfig'.m_addressCache[n] = g_gameConfig.m_addressCache[n] ]_vars

\* the cache holds an address for one name and null for another, the latter
\* resolved a second time, and the gamedata now gives the first name another
\* pattern than the one it was resolved with
C12_Witness ==
    /\ \E n \in DOMAIN g_gameConfig.m_addressCache :
          /\ g_gameConfig.m_addressCache[n] = NULL
          /\ resolveHist[n].calls >= 2
    /\ "Foo" \in DOMAIN g_gameConfig.m_addressCache
    /\ g_gameConfig.m_addressCache["Foo"] = 4384
    /\ g_gameConfig.m_signatures["Foo"] = Sig_22_E5

(***************************************************************************)
(* The bridge driven directly (SpecBridge): the plugin initializes,        *)
(* registers callbacks, ticks and shuts down in any order, against every   *)
(* Go library the path may hold.                                           *)
(***************************************************************************)
MaxGoRefs == 2

GoImages ==
    { [ exports |-> e, abi |-> v ] :
        e \in { GoSymbols, RequiredSet, GoSymbols \ { "GoStrike_OnTick" },
                GoSymbols \ { "GoStrike_RegisterCallbacks" } },
        v \in { GOSTRIKE_ABI_VERSION, GOSTRIKE_ABI_VERSION + 1 } }

GoFiles == { NoFile } \cup { [ exists |-> TRUE, image |-> img ] : img \in GoImages }

InitErrs == { GS_OK, GS_ERR_INIT_FAILED }

InitBridge ==
    /\ loaded = << ExeObject >>
    /\ modules = [ id \in ModuleIds |-> NewModule ]
    /\ scanCall = NoScan
    /\ g_gameConfig = NewGameConfig
    /\ resolveHist = EmptyMap
    /\ offsetCall = NoOffsetCall
    /\ BridgeUnloaded
    /\ DetoursIdle
    /\ SchemaIdle
    /\ PluginIdle

GoBridgeInit(file, initErr) ==
    /\ goProc.refs < MaxGoRefs
    /\ LET r == GoBridge_Init(bridge, goProc, file, initErr)
           o == DlOpenGo(goProc, file)
       IN /\ bridge' = r.bridge
          /\ goProc' = r.go
          /\ goCalls' = r.called
          /\ handshake' = AfterInit(handshake, goProc, o.go, r)
          /\ playerNotices' = IF bridge.g_initialized THEN playerNotices ELSE {}
          /\ initAttempt' =
               IF bridge.g_initialized
               THEN [ NoAttempt EXCEPT !.made = TRUE, !.already = TRUE, !.ret = r.ret ]
               ELSE [ made |-> TRUE, already |-> FALSE, opened |-> o.handle # NULL,
                      image |-> o.go.image, initErr |-> initErr, ret |-> r.ret ]
    /\ UNCHANGED << boundaryCall, notBridge >>

GoBridgeRegisterCallbacks ==
    /\ LET r == GoBridge_RegisterCallbacks(bridge, goProc)
       IN /\ bridge' = r.bridge
          /\ goProc' = r.go
          /\ goCalls' = goCalls \cup r.called
          /\ handshake' = AfterCalls(handshake, r.go, r.called)
    /\ UNCHANGED << initAttempt, playerNotices, boundaryCall, notBridge >>

GoBridgeShutdown ==
    /\ LET r == GoBridge_Shutdown(bridge, goProc)
       IN /\ bridge' = r.bridge
          /\ goProc' = r.go
          /\ goCalls' = goCalls \cup r.called
          /\ handshake' = AfterCalls(handshake, r.go, r.called)
    /\ UNCHANGED << initAttempt, playerNotices, boundaryCall, notBridge >>

\* a forwarder with answer r ran: the statics it left and what it invoked
Forward(op, nullArg, r, ret) ==
    /\ bridge' = r.bridge
    /\ goProc' = r.go
    /\ goCalls' = goCalls \cup r.called
    /\ handshake' = AfterCalls(handshake, r.go, r.called)
    /\ boundaryCall' = Forwarded(op, nullArg, bridge, goProc, r, ret)
    /\ playerNotices' = AfterNotice(playerNotices, r)
    /\ UNCHANGED << initAttempt, notBridge >>

GoBridgeOnTick ==
    Forward("GoBridge_OnTick", FALSE, GoBridge_OnTick(bridge, goProc), 0)

\* slots at and beyond both ends of the player cache
PlayerSlots == { -1, 0, PlayerCacheSize - 1, PlayerCacheSize }
Players == { NullPlayer } \cup { PlayerIn(slot) : slot \in PlayerSlots }

GoBridgeOnPlayerConnect(player) ==
    Forward("GoBridge_OnPlayerConnect", player.isNull,
            GoBridge_OnPlayerConnect(bridge, goProc, player), 0)

GoBridgeOnPlayerDisconnect(slot) ==
    Forward("GoBridge_OnPlayerDisconnect", FALSE,
            GoBridge_OnPlayerDisconnect(bridge, goProc, slot), 0)

round_start == << "r","o","u","n","d","_","s","t","a","r","t" >>
de_dust2 == << "d","e","_","d","u","s","t","2" >>
hello == << "h","e","l","l","o" >>
EventNames == { NullStr, round_start }
MapNames == { NullStr, de_dust2 }
Messages == { NullStr, hello }
EventResults == { GS_EVENT_CONTINUE, GS_EVENT_CHANGED, GS_EVENT_HANDLED, GS_EVENT_STOP }

GoBridgeFireEvent(name, isPost, goResult) ==
    LET r == GoBridge_FireEvent(bridge, goProc, name, isPost, goResult)
    IN Forward("GoBridge_FireEvent", name = NullStr, r, r.ret)

GoBridgeOnMapChange(mapName) ==
    Forward("GoBridge_OnMapChange", mapName = NullStr,
            GoBridge_OnMapChange(bridge, goProc, mapName), 0)

GoBridgeOnEntityCreated ==
    Forward("GoBridge_OnEntityCreated", FALSE,
            GoBridge_OnEntityCreated(bridge, goProc), 0)

GoBridgeOnEntitySpawned ==
    Forward("GoBridge_OnEntitySpawned", FALSE,
            GoBridge_OnEntitySpawned(bridge, goProc), 0)

GoBridgeOnEntityDeleted ==
    Forward("GoBridge_OnEntityDeleted", FALSE,
            GoBridge_OnEntityDeleted(bridge, goProc), 0)

GoBridgeOnChatMessage(message, goResult) ==
    LET r == GoBridge_OnChatMessage(bridge, goProc, message, goResult)
    IN Forward("GoBridge_OnChatMessage", message = NullStr, r,
               IF r.ret THEN 1 ELSE 0)

NextBridge ==
    \/ \E file \in GoFiles, initErr \in InitErrs : GoBridgeInit(file, initErr)
    \/ GoBridgeRegisterCallbacks
    \/ GoBridgeShutdown
    \/ GoBridgeOnTick
    \/ \E player \in Players : GoBridgeOnPlayerConnect(player)
    \/ \E slot \in PlayerSlots : GoBridgeOnPlayerDisconnect(slot)

SpecBridge == InitBridge /\ [][NextBridge]_vars

(***************************************************************************)
(* Properties of the bridge (SpecBridge)                                   *)
(***************************************************************************)
\* the last GoBridge_Init opened a library that has every required entry
\* point and reports another ABI version than the plugin's
VersionMismatch ==
    /\ initAttempt.made /\ ~initAttempt.already /\ initAttempt.opened
    /\ RequiredSet \subseteq initAttempt.image.exports
    /\ initAttempt.image.abi # GOSTRIKE_ABI_VERSION

\* C5: when the Go library reports an ABI version other than
\* GOSTRIKE_ABI_VERSION, GoBridge_Init returns false, the library is closed
\* and its handle null, the bridge is not initialized, and from that call on
\* neither GoStrike_Init nor GoStrike_RegisterCallbacks is called, so the Go
\* side holds no callback table.
C5_VersionMismatchUnloads ==
    VersionMismatch =>
        /\ ~initAttempt.ret
        /\ bridge.g_goLib = NULL /\ goProc.refs = 0
        /\ ~bridge.g_initialized
        /\ "GoStrike_Init" \notin goCalls
        /\ "GoStrike_RegisterCallbacks" \notin goCalls
        /\ ~goProc.rt.callbacks

\* a library with all its entry points, the optional ones included, was
\* opened and only GoStrike_GetABIVersion was called before GoBridge_Init
\* gave up
C5_Witness ==
    /\ VersionMismatch
    /\ ~initAttempt.ret
    /\ goCalls = { "GoStrike_GetABIVersion" }
    /\ bridge.pfn["GoStrike_RegisterCallbacks"]
    /\ bridge.pfn["GoStrike_OnEntityCreated"]

\* C6: after every GoBridge_Init that returns false the library is unloaded,
\* its handle is null and the initialized flag is false.
C6_FailedInitUnloads ==
    (initAttempt.made /\ ~initAttempt.ret) =>
        /\ bridge.g_goLib = NULL /\ goProc.refs = 0
        /\ ~bridge.g_initialized

\* the entry points C20 lists as required
C20_ListedEntryPoints ==
    { "GoStrike_Init", "GoStrike_Shutdown", "GoStrike_OnTick", "GoStrike_OnEvent",
      "GoStrike_OnPlayerConnect", "GoStrike_OnPlayerDisconnect",
      "GoStrike_OnEntityCreated", "GoStrike_OnEntitySpawned",
      "GoStrike_OnEntityDeleted", "GoStrike_GetLastError",
      "GoStrike_RegisterCallbacks", "GoStrike_GetABIVersion" }

\* the last GoBridge_Init opened a library that lacks one of the entry points
\* in need
OpenedWithout(need) ==
    /\ initAttempt.made /\ ~initAttempt.already /\ initAttempt.opened
    /\ ~(need \subseteq initAttempt.image.exports)

\* C20 as stated: GoBridge_Init returns false and leaves the bridge
\* uninitialized when the library lacks any of the listed entry points, the
\* entity lifecycle notifications among them.
C20_ListedEntryPointsRequired ==
    OpenedWithout(C20_ListedEntryPoints) =>
        ~initAttempt.ret /\ ~bridge.g_initialized

\* C20 amended: GoBridge_Init returns false and leaves the bridge
\* uninitialized when the library lacks any of the twelve entry points
\* loaded with LOAD_GO_SYMBOL.
C20_RequiredEntryPoints ==
    OpenedWithout(RequiredSet) =>
        ~initAttempt.ret /\ ~bridge.g_initialized

\* a library with the right ABI version that lacks only
\* GoStrike_RegisterCallbacks was opened and refused
C20_Witness ==
    /\ OpenedWithout(RequiredSet)
    /\ initAttempt.image.exports = GoSymbols \ { "GoStrike_RegisterCallbacks" }
    /\ initAttempt.image.abi = GOSTRIKE_ABI_VERSION
    /\ initAttempt.initErr = GS_OK
    /\ ~initAttempt.ret
    /\ goCalls = {}

\* where the bridge stands between two of its functions
Phase ==
    IF bridge.g_initialized
    THEN ( IF goProc.rt.callbacks THEN "Running" ELSE "Initialized" )
    ELSE ( IF bridge.g_goLib # NULL THEN "Loaded" ELSE "Unloaded" )

\* the phases one bridge function can lead to: forward along Unloaded,
\* Loaded, (VersionChecked,) Initialized, Running, (ShuttingDown,) Unloaded,
\* or from a failed GoBridge_Init back to where it began
PhasesAfter(p) ==
    CASE p = "Unloaded" -> { "Unloaded", "Loaded", "Initialized" }
      [] p = "Loaded" -> { "Loaded", "Initialized", "Unloaded" }
      [] p = "Initialized" -> { "Initialized", "Running", "Unloaded" }
      [] p = "Running" -> { "Running", "Unloaded" }

\* C16: the bridge only moves forward along Unloaded, Loaded, VersionChecked,
\* Initialized, Running, ShuttingDown, Unloaded (a failed GoBridge_Init
\* falling back), an initialized bridge is bound to a mapped library whose
\* version matched, and no export other than GoStrike_GetABIVersion is ever
\* invoked in a library whose version has not been read and found equal to
\* GOSTRIKE_ABI_VERSION since it was mapped.
C16_HandshakeFirst ==
    /\ [] ( /\ handshake.unverified = {}
            /\ bridge.g_initialized =>
                  ( /\ handshake.verified
                    /\ goProc.refs > 0
                    /\ goProc.image.abi = GOSTRIKE_ABI_VERSION ) )
    /\ [][ Phase' \in PhasesAfter(Phase) ]_vars

\* a tick was forwarded to a running Go runtime whose version had matched
C16_Witness ==
    /\ Phase = "Running"
    /\ handshake.verified
    /\ { "GoStrike_Init", "GoStrike_RegisterCallbacks", "GoStrike_OnTick" }
          \subseteq goCalls

(***************************************************************************)
(* The detours driven directly (SpecDetour): libserver.so is mapped, the   *)
(* server module and the gamedata are initialized at some point, and the   *)
(* chat and damage detours are initialized and shut down in any order,     *)
(* with funchook succeeding or failing at each step.                       *)
(***************************************************************************)
MaxHooks == 3

\* libserver.so holding Host_Say (55 48 89 E5) and TakeDamageOld (41 57)
HookBytes == << 85, 72, 137, 229, 65, 87 >>
HookServer == ServerObject(HookBytes, NoExports)
Sig_55_48_89_E5 == << "5","5"," ","4","8"," ","8","9"," ","E","5" >>
Sig_41_57 == << "4","1"," ","5","7" >>

HookGameData ==
    [ readable |-> TRUE,
      items |->
        [ k \in { HostSayName, TakeDamageOldName } |->
            IF k = HostSayName THEN SigEntry(<< "server" >>, << Sig_55_48_89_E5 >>)
            ELSE SigEntry(<< "server" >>, << Sig_41_57 >>) ] ]

HookEnvs ==
    [ netMessages : { "none", "found", "notfound" },
      createOk : BOOLEAN, prepareOk : BOOLEAN, installOk : BOOLEAN ]

InitDetour ==
    /\ loaded = << ExeObject, HookServer >>
    /\ modules = [ id \in ModuleIds |-> NewModule ]
    /\ scanCall = NoScan
    /\ g_gameConfig = NewGameConfig
    /\ resolveHist = EmptyMap
    /\ offsetCall = NoOffsetCall
    /\ BridgeUnloaded
    /\ DetoursIdle
    /\ SchemaIdle
    /\ PluginIdle

\* the address ResolveSignature has cached for a name, if any
CachedTarget(cfg, name) ==
    IF name \in DOMAIN cfg.m_addressCache THEN cfg.m_addressCache[name] ELSE NULL

\* the registration a detour holds after an initialize, if any; an
\* initialize that found its target and ended without a handle has failed
Registered(hist, d, handle, fh, target) ==
    IF handle # NULL
    THEN [ hist EXCEPT ![d] = [ op |-> "installed", target |-> fh.hooks[handle].target ] ]
    ELSE IF target # NULL
    THEN [ hist EXCEPT ![d] = [ op |-> "failed", target |-> target ] ]
    ELSE hist

\* the registration a shutdown removed, if any
Removed(hist, d, handle, fh) ==
    IF handle = NULL THEN hist
    ELSE [ hist EXCEPT ![d] = [ op |-> "removed", target |-> fh.hooks[handle].target ] ]

ChatManagerInitialize(env) ==
    /\ funchooks.next <= MaxHooks
    /\ LET r == ChatManager_Initialize(chatManager, g_gameConfig, modules, loaded,
                                       funchooks, env)
       IN /\ chatManager' = r.chat
          /\ g_gameConfig' = r.cfg
          /\ funchooks' = r.fh
          /\ UNCHANGED << detourStack, gameFunctions, gameFuncCall >>
          /\ detourHist' = Registered(detourHist, "chat", r.chat.s_pFunchook, r.fh,
                                      CachedTarget(r.cfg, HostSayName))
    /\ UNCHANGED << procVars, scanVars, resolveHist, offsetCall, bridgeVars, damageHook,
                   schemaVars, pluginVars >>

ChatManagerShutdown ==
    /\ LET r == ChatManager_Shutdown(chatManager, funchooks)
       IN /\ chatManager' = r.chat
          /\ funchooks' = r.fh
          /\ UNCHANGED << detourStack, gameFunctions, gameFuncCall >>
          /\ detourHist' = Removed(detourHist, "chat", chatManager.s_pFunchook, funchooks)
    /\ UNCHANGED << procVars, scanVars, configVars, bridgeVars, damageHook,
                   schemaVars, pluginVars >>

GameFuncInitDamageHook(env) ==
    /\ funchooks.next <= MaxHooks
    /\ LET r == GameFunc_InitDamageHook(damageHook, g_gameConfig, modules, loaded,
                                        funchooks, env)
       IN /\ damageHook' = r.dmg
          /\ g_gameConfig' = r.cfg
          /\ funchooks' = r.fh
          /\ UNCHANGED << detourStack, gameFunctions, gameFuncCall >>
          /\ detourHist' = Registered(detourHist, "damage", r.dmg.s_pDamageHook, r.fh,
                                      CachedTarget(r.cfg, TakeDamageOldName))
    /\ UNCHANGED << procVars, scanVars, resolveHist, offsetCall, bridgeVars, chatManager,
                   schemaVars, pluginVars >>

GameFuncShutdownDamageHook ==
    /\ LET r == GameFunc_ShutdownDamageHook(damageHook, funchooks)
       IN /\ damageHook' = r.dmg
          /\ funchooks' = r.fh
          /\ UNCHANGED << detourStack, gameFunctions, gameFuncCall >>
          /\ detourHist' = Removed(detourHist, "damage", damageHook.s_pDamageHook,
                                   funchooks)
    /\ UNCHANGED << procVars, scanVars, configVars, bridgeVars, chatManager,
                   schemaVars, pluginVars >>

NextDetour ==
    \/ ModuleInitialize("server")
    \/ GameConfigInit(HookGameData)
    \/ \E env \in HookEnvs : ChatManagerInitialize(env)
    \/ ChatManagerShutdown
    \/ \E env \in HookEnvs : GameFuncInitDamageHook(env)
    \/ GameFuncShutdownDamageHook

SpecDetour == InitDetour /\ [][NextDetour]_vars

(***************************************************************************)
(* Properties of the detours (SpecDetour)                                  *)
(***************************************************************************)
\* C7: once a detour that was installed has been shut down (ChatManager_
\* Shutdown, GameFunc_ShutdownDamageHook), its target is not redirected any
\* more: the original code runs and the replacement is not entered.
C7_UninstallRestoresTarget ==
    \A d \in DOMAIN detourHist :
        detourHist[d].op = "removed" =>
            TextAt(funchooks, detourHist[d].target) = << >>

\* C8: no target ever carries two installed hooks, and every installed hook
\* is the registration its manager holds (handle and trampoline pointer).
C8_InstalledOnceAndKept ==
    /\ \A a \in DOMAIN funchooks.text : Len(funchooks.text[a]) <= 1
    /\ \A h \in DOMAIN funchooks.hooks :
          funchooks.hooks[h].state = "installed" =>
              \/ /\ chatManager.s_pFunchook = h
                 /\ chatManager.s_pOriginalHostSay = TrampolineOf(h)
              \/ /\ damageHook.s_pDamageHook = h
                 /\ damageHook.s_pOriginalTakeDamageOld = TrampolineOf(h)

(***************************************************************************)
(* C23: when creating, preparing or installing the detour fails in         *)
(* ChatManager_Initialize or GameFunc_InitDamageHook, the target stays     *)
(* un-redirected and the replacement is not entered, the handle is         *)
(* destroyed and null, and the later shutdown call changes nothing.        *)
(***************************************************************************)
C23_FailedInstallLeavesUninstalled ==
    \A d \in DOMAIN detourHist :
        detourHist[d].op = "failed" =>
            /\ TextAt(funchooks, detourHist[d].target) = << >>
            /\ \A h \in DOMAIN funchooks.hooks :
                  funchooks.hooks[h].target # detourHist[d].target
            /\ d = "chat" =>
                  /\ chatManager.s_pFunchook = NULL
                  /\ ChatManager_Shutdown(chatManager, funchooks)
                        = [ chat |-> chatManager, fh |-> funchooks ]
            /\ d = "damage" =>
                  /\ damageHook.s_pDamageHook = NULL
                  /\ GameFunc_ShutdownDamageHook(damageHook, funchooks)
                        = [ dmg |-> damageHook, fh |-> funchooks ]

(***************************************************************************)
(* The schema resolver driven directly (SpecSchema): Load acquires the     *)
(* engine's schema system and calls schema::Initialize; GetOffset is       *)
(* called with the names below, in any order.                              *)
(***************************************************************************)
CEntityInstance == << "C","E","n","t","i","t","y","I","n","s","t","a","n","c","e" >>
CBaseEntity == << "C","B","a","s","e","E","n","t","i","t","y" >>
CCSPlayerPawn == << "C","C","S","P","l","a","y","e","r","P","a","w","n" >>
CDual == << "C","D","u","a","l" >>
CMixin == << "C","M","i","x","i","n" >>
CGlobalOnly == << "C","G","l","o","b","a","l","O","n","l","y" >>
CNope == << "C","N","o","p","e" >>
m_iHealth == << "m","_","i","H","e","a","l","t","h" >>
m_iTeamNum == << "m","_","i","T","e","a","m","N","u","m" >>
m_pEntity == << "m","_","p","E","n","t","i","t","y" >>
m_flags == << "m","_","f","l","a","g","s" >>
MNetworkChangeCallback ==
    << "M","N","e","t","w","o","r","k","C","h","a","n","g","e",
       "C","a","l","l","b","a","c","k" >>

Meta(name) == [ m_pszName |-> name ]
Field(name, offset, metadata) ==
    [ m_pszName |-> name, m_nSingleInheritanceOffset |-> offset,
      m_pStaticMetadata |-> metadata ]
Base(class) == [ m_pClass |-> class ]

CEntityInstanceInfo ==
    [ m_pFields |-> << Field(m_pEntity, 16, << >>) >>, m_pBaseClasses |-> << >> ]
CBaseEntityInfo ==
    [ m_pFields |->
        << Field(NullStr, 8, << Meta(MNetworkEnable) >>),
           Field(m_iHealth, 52, << Meta(NullStr), Meta(MNetworkChangeCallback),
                                   Meta(MNetworkEnable) >>),
           Field(m_iTeamNum, 60, << Meta(MNetworkEnable) >>) >>,
      m_pBaseClasses |-> << Base(<< CEntityInstanceInfo >>) >> ]
CCSPlayerPawnInfo ==
    [ m_pFields |->
        << Field(m_iTeamNum, 200, << Meta(MNetworkChangeCallback) >>) >>,
      m_pBaseClasses |-> << Base(<< CBaseEntityInfo >>) >> ]
CMixinInfo ==
    [ m_pFields |-> << Field(m_flags, 4, << Meta(MNetworkEnable) >>) >>,
      m_pBaseClasses |-> << Base(<< >>) >> ]
CDualInfo ==
    [ m_pFields |-> << >>,
      m_pBaseClasses |-> << Base(<< CMixinInfo >>), Base(<< CBaseEntityInfo >>) >> ]
CGlobalOnlyInfo ==
    [ m_pFields |-> << Field(m_flags, 24, << >>) >>,
      m_pBaseClasses |-> << Base(<< CEntityInstanceInfo >>) >> ]

ServerScope ==
    MapPut(MapPut(MapPut(MapPut(MapPut(EmptyMap,
        CEntityInstance, CEntityInstanceInfo),
        CBaseEntity, CBaseEntityInfo),
        CCSPlayerPawn, CCSPlayerPawnInfo),
        CMixin, CMixinInfo),
        CDual, CDualInfo)
GlobalScope == MapPut(EmptyMap, CGlobalOnly, CGlobalOnlyInfo)

\* the schema systems the engine may hand out: the server scope under its
\* Linux name, under its Windows name, without a global scope, and without
\* any scope for the server module
HostSchemas ==
    { [ present |-> TRUE, scopes |-> MapPut(EmptyMap, LibServerSo, ServerScope),
        global |-> << GlobalScope >> ],
      [ present |-> TRUE, scopes |-> MapPut(EmptyMap, ServerDll, ServerScope),
        global |-> << GlobalScope >> ],
      [ present |-> TRUE, scopes |-> MapPut(EmptyMap, LibServerSo, ServerScope),
        global |-> << >> ],
      [ present |-> TRUE, scopes |-> MapPut(EmptyMap, LibEngine2So, GlobalScope),
        global |-> << GlobalScope >> ] }

QueriedClasses == { CCSPlayerPawn, CDual, CGlobalOnly, CNope, NullStr }
QueriedFields == { m_iHealth, m_iTeamNum, m_pEntity, m_flags, NullStr }

InitSchema ==
    /\ loaded = << ExeObject >>
    /\ modules = [ id \in ModuleIds |-> NewModule ]
    /\ scanCall = NoScan
    /\ g_gameConfig = NewGameConfig
    /\ resolveHist = EmptyMap
    /\ offsetCall = NoOffsetCall
    /\ BridgeUnloaded
    /\ DetoursIdle
    /\ SchemaIdle
    /\ PluginIdle

\* GET_V_IFACE_CURRENT(GetEngineFactory, gs_pSchemaSystem, ...) in Load
AcquireSchemaSystem(sys) ==
    /\ ~gs_pSchemaSystem.present
    /\ gs_pSchemaSystem' = sys
    /\ UNCHANGED << s_cache, schemaCall, schemaCalls, schemaHist, notSchema >>

SchemaInitialize ==
    /\ s_cache' = schema_Initialize(s_cache)
    /\ UNCHANGED << gs_pSchemaSystem, schemaCall, schemaCalls, schemaHist, notSchema >>

SchemaGetOffset(className, fieldName) ==
    /\ schemaCalls < MaxLookups
    /\ LET r == schema_GetOffset(s_cache, gs_pSchemaSystem, className, fieldName) IN
         /\ s_cache' = r.cache
         /\ schemaCall' = [ made |-> TRUE, className |-> className,
                            fieldName |-> fieldName,
                            available |-> gs_pSchemaSystem.present,
                            ret |-> r.ret, consulted |-> r.consulted,
                            earlier |-> IF << className, fieldName >> \in DOMAIN schemaHist
                                        THEN << schemaHist[<< className, fieldName >>] >>
                                        ELSE << >> ]
         /\ schemaHist' = MapPut(schemaHist, << className, fieldName >>, r.ret)
    /\ schemaCalls' = schemaCalls + 1
    /\ UNCHANGED << gs_pSchemaSystem, notSchema >>

NextSchema ==
    \/ \E sys \in HostSchemas : AcquireSchemaSystem(sys)
    \/ SchemaInitialize
    \/ \E c \in QueriedClasses, f \in QueriedFields : SchemaGetOffset(c, f)

SpecSchema == InitSchema /\ [][NextSchema]_vars

(***************************************************************************)
(* Properties of the schema resolver (SpecSchema)                          *)
(***************************************************************************)
\* C9: when GetOffset(type, field) runs with the schema system acquired and
\* a type scope for the server module present, and the type is declared (in
\* that scope, or else in the global scope), it returns the offset and
\* networked flag of the type's own declaration of the field if there is
\* one; otherwise those of the declaration in the class of the first base
\* class entry if there is one; otherwise {0, false}, also when the field is
\* declared two levels up or in a later base class entry.
C9_OwnThenFirstBaseOnly ==
    LET sys == gs_pSchemaSystem
        c == schemaCall.className
        f == schemaCall.fieldName
        server == IF LibServerSo \in DOMAIN sys.scopes THEN sys.scopes[LibServerSo]
                  ELSE sys.scopes[ServerDll]
        declaredIn(scope) == c \in DOMAIN scope
        info == IF declaredIn(server) THEN server[c] ELSE sys.global[1][c]
        declares(cls) == \E i \in DOMAIN cls.m_pFields : cls.m_pFields[i].m_pszName = f
        declaration(cls) ==
            LET i == CHOOSE i \in DOMAIN cls.m_pFields :
                        /\ cls.m_pFields[i].m_pszName = f
                        /\ \A j \in 1..(i - 1) : cls.m_pFields[j].m_pszName # f
            IN SchemaKey(cls.m_pFields[i].m_nSingleInheritanceOffset,
                         \E m \in DOMAIN cls.m_pFields[i].m_pStaticMetadata :
                             cls.m_pFields[i].m_pStaticMetadata[m].m_pszName
                                 = MNetworkEnable)
        firstBase == info.m_pBaseClasses[1].m_pClass[1]
        hasFirstBase == /\ info.m_pBaseClasses # << >>
                        /\ info.m_pBaseClasses[1].m_pClass # << >>
    IN
    ( /\ schemaCall.made
      /\ schemaCall.available
      /\ c # NullStr
      /\ f # NullStr
      /\ ( LibServerSo \in DOMAIN sys.scopes \/ ServerDll \in DOMAIN sys.scopes )
      /\ ( declaredIn(server) \/ ( sys.global # << >> /\ declaredIn(sys.global[1]) ) ) )
    => ( schemaCall.ret =
            IF declares(info) THEN declaration(info)
            ELSE IF hasFirstBase /\ declares(firstBase) THEN declaration(firstBase)
            ELSE NoSchemaKey )

\* a field of the immediate base class has been resolved and one declared
\* two levels up has been answered {0, false}
C9_Witness ==
    /\ schemaCall.made
    /\ schemaCall.available
    /\ schemaCall.className = CCSPlayerPawn
    /\ schemaCall.fieldName = m_iHealth
    /\ schemaCall.ret = SchemaKey(52, TRUE)
    /\ CombinedHash(CCSPlayerPawn, m_pEntity) \in DOMAIN s_cache
    /\ s_cache[CombinedHash(CCSPlayerPawn, m_pEntity)] = NoSchemaKey

\* C11: a GetOffset call for a non-null pair that has been looked up before
\* returns what the earlier call returned and does not ask the host's schema
\* system again.
C11_SecondLookupFromCache ==
    ( /\ schemaCall.made
      /\ schemaCall.className # NullStr
      /\ schemaCall.fieldName # NullStr
      /\ schemaCall.earlier # << >> )
    => ( /\ schemaCall.ret = schemaCall.earlier[1]
         /\ ~schemaCall.consulted )

\* C13 as stated: no step removes an entry of the schema cache or changes
\* its value.
C13_SchemaCacheNeverInvalidated ==
    [][ \A k \in DOMAIN s_cache : k \in DOMAIN s_cache' /\ s_cache'[k] = s_cache[k] ]_vars

\* C13 amended: schema::Initialize, which empties the cache, is the only
\* step that removes an entry; every other step keeps every entry and its
\* value.
C13_OnlyInitializeInvalidates ==
    [][ \/ SchemaInitialize /\ s_cache' = EmptyMap
        \/ \A k \in DOMAIN s_cache :
               k \in DOMAIN s_cache' /\ s_cache'[k] = s_cache[k] ]_vars

\* a field was resolved from the schema and cached, and the cache has been
\* emptied since
C13_Witness ==
    /\ << CCSPlayerPawn, m_iHealth >> \in DOMAIN schemaHist
    /\ schemaHist[<< CCSPlayerPawn, m_iHealth >>] = SchemaKey(52, TRUE)
    /\ s_cache = EmptyMap

(***************************************************************************)
(* The callback table: entity properties, entity lookup and gamedata       *)
(* (go_bridge.cpp, CB_EntityGetInt .. CB_GetGamedataOffset)                *)
(***************************************************************************)
\* the notifications a stub of the engine's NetworkStateChanged makes
SetStateChanged_Dropped(entity, className, fieldName, fieldOffset) == << >>

\* schema::SetStateChanged: the notifications the engine receives, each
\* naming the entity and the offset of the changed field
SetStateChanged(entity, className, fieldName, fieldOffset) ==
    IF entity = NULL THEN << >>
    ELSE << [ entity |-> entity, offset |-> fieldOffset ] >>

\* the answer of a callback that touched nothing
Untouched(ret, cache) ==
    [ ret |-> ret, cache |-> cache, reads |-> {}, writes |-> {}, notified |-> << >> ]

\* CB_EntityGetInt / CB_EntityGetFloat / CB_EntityGetBool: the value stored
\* at entity + offset, or zero
EntityGet(cache, sys, entity, className, fieldName, stored) ==
    IF entity = NULL \/ className = NullStr \/ fieldName = NullStr
    THEN Untouched(0, cache)
    ELSE LET r == schema_GetOffset(cache, sys, className, fieldName) IN
         IF r.ret.offset = 0 THEN Untouched(0, r.cache)
         ELSE [ ret |-> stored, cache |-> r.cache,
                reads |-> { entity + r.ret.offset }, writes |-> {},
                notified |-> << >> ]

CB_EntityGetInt(cache, sys, entity, className, fieldName, stored) ==
    EntityGet(cache, sys, entity, className, fieldName, stored)
CB_EntityGetFloat(cache, sys, entity, className, fieldName, stored) ==
    EntityGet(cache, sys, entity, className, fieldName, stored)
CB_EntityGetBool(cache, sys, entity, className, fieldName, stored) ==
    EntityGet(cache, sys, entity, className, fieldName, stored)

\* CB_EntitySetInt / CB_EntitySetFloat / CB_EntitySetBool: the value is
\* written at entity + offset and a networked field is reported changed
EntitySet(cache, sys, entity, className, fieldName) ==
    IF entity = NULL \/ className = NullStr \/ fieldName = NullStr
    THEN Untouched(0, cache)
    ELSE LET r == schema_GetOffset(cache, sys, className, fieldName) IN
         IF r.ret.offset = 0 THEN Untouched(0, r.cache)
         ELSE [ ret |-> 0, cache |-> r.cache, reads |-> {},
                writes |-> { entity + r.ret.offset },
                notified |-> IF r.ret.networked
                             THEN SetStateChanged(entity, className, fieldName,
                                                  r.ret.offset)
                             ELSE << >> ]

CB_EntitySetInt(cache, sys, entity, className, fieldName) ==
    EntitySet(cache, sys, entity, className, fieldName)
CB_EntitySetFloat(cache, sys, entity, className, fieldName) ==
    EntitySet(cache, sys, entity, className, fieldName)
CB_EntitySetBool(cache, sys, entity, className, fieldName) ==
    EntitySet(cache, sys, entity, className, fieldName)

\* CB_EntityGetString: at most bufSize - 1 characters of the string of
\* length len at entity + offset are copied to buf
CB_EntityGetString(cache, sys, entity, className, fieldName, buf, bufSize, len) ==
    IF entity = NULL \/ className = NullStr \/ fieldName = NullStr
       \/ buf = NULL \/ bufSize <= 0
    THEN Untouched(0, cache)
    ELSE LET r == schema_GetOffset(cache, sys, className, fieldName) IN
         IF r.ret.offset = 0 THEN Untouched(0, r.cache)
         ELSE LET copy == IF len < bufSize - 1 THEN len ELSE bufSize - 1
              IN [ ret |-> copy, cache |-> r.cache,
                   reads |-> { entity + r.ret.offset }, writes |-> { buf },
                   notified |-> << >> ]

\* CB_EntityGetVector: *out becomes the three floats at entity + offset, or
\* zero when the field is unknown
CB_EntityGetVector(cache, sys, entity, className, fieldName, out) ==
    IF entity = NULL \/ className = NullStr \/ fieldName = NullStr \/ out = NULL
    THEN Untouched(0, cache)
    ELSE LET r == schema_GetOffset(cache, sys, className, fieldName) IN
         IF r.ret.offset = 0
         THEN [ ret |-> 0, cache |-> r.cache, reads |-> {}, writes |-> { out },
                notified |-> << >> ]
         ELSE [ ret |-> 0, cache |-> r.cache,
                reads |-> { entity + r.ret.offset }, writes |-> { out },
                notified |-> << >> ]

\* CB_EntitySetVector
CB_EntitySetVector(cache, sys, entity, className, fieldName, value) ==
    IF entity = NULL \/ className = NullStr \/ fieldName = NullStr \/ value = NULL
    THEN Untouched(0, cache)
    ELSE LET r == schema_GetOffset(cache, sys, className, fieldName) IN
         IF r.ret.offset = 0 THEN Untouched(0, r.cache)
         ELSE [ ret |-> 0, cache |-> r.cache, reads |-> { value },
                writes |-> { entity + r.ret.offset },
                notified |-> IF r.ret.networked
                             THEN SetStateChanged(entity, className, fieldName,
                                                  r.ret.offset)
                             ELSE << >> ]

\* UINT32_MAX, the unsigned -1, scaled to the checker's integer width
UINT32_MAX == 2147483647

\* CB_GetEntityIndex -> EntitySystem_GetEntityIndex: the entry index of the
\* entity's identity, identity being entity->m_pEntity
CB_GetEntityIndex(cache, entity, identity, index) ==
    IF entity = NULL THEN Untouched(UINT32_MAX, cache)
    ELSE [ ret |-> IF identity = NULL THEN UINT32_MAX ELSE index, cache |-> cache,
           reads |-> IF identity = NULL THEN { entity } ELSE { entity, identity },
           writes |-> {}, notified |-> << >> ]

\* CB_GetEntityClassname -> EntitySystem_GetEntityClassname
CB_GetEntityClassname(cache, entity, classname) ==
    IF entity = NULL THEN Untouched(NULL, cache)
    ELSE [ ret |-> classname, cache |-> cache, reads |-> { entity },
           writes |-> {}, notified |-> << >> ]

\* CB_IsEntityValid -> EntitySystem_IsEntityValid
CB_IsEntityValid(cache, entity, identity) ==
    IF entity = NULL THEN Untouched(0, cache)
    ELSE [ ret |-> IF identity # NULL THEN 1 ELSE 0, cache |-> cache,
           reads |-> { entity }, writes |-> {}, notified |-> << >> ]

\* the null const char* among the gamedata names
NullName == "nullptr"

\* CB_ResolveGamedata(name)
CB_ResolveGamedata(cfg, name, mods, objs) ==
    IF name = NullName THEN [ ret |-> NULL, cfg |-> cfg ]
    ELSE LET r == GameConfig_ResolveSignature(cfg, name, mods, objs)
         IN [ ret |-> r.ret, cfg |-> r.cfg ]

\* CB_GetGamedataOffset(name)
CB_GetGamedataOffset(cfg, name) ==
    IF name = NullName THEN [ ret |-> -1, cfg |-> cfg ]
    ELSE [ ret |-> GameConfig_GetOffset(cfg, name), cfg |-> cfg ]

(***************************************************************************)
(* SpecBoundary: the calls across the boundary in any order, with null and *)
(* non-null arguments: the plugin's forwarders into a complete Go library, *)
(* and the Go runtime's calls of the callback table once it has the table, *)
(* from plugin load until shutdown.                                        *)
(***************************************************************************)
CompleteGoFile ==
    [ exists |-> TRUE, image |-> [ exports |-> GoSymbols, abi |-> GOSTRIKE_ABI_VERSION ] ]
FullHostSchema ==
    [ present |-> TRUE, scopes |-> MapPut(EmptyMap, LibServerSo, ServerScope),
      global |-> << GlobalScope >> ]

EntityAddr == 4096
IdentityAddr == 8192
BufAddr == 12288
Entities == { NULL, EntityAddr }
NameArgs == { NullName, HostSayName }
BoundaryPlayers == { NullPlayer, PlayerIn(0) }

\* the arguments of a property callback: each of them null in turn, and none
PropertyArgs ==
    { << NULL, CCSPlayerPawn, m_iHealth >>, << EntityAddr, NullStr, m_iHealth >>,
      << EntityAddr, CCSPlayerPawn, NullStr >>, << EntityAddr, CCSPlayerPawn, m_iHealth >> }
\* the same with a buffer, or a vector, as fourth argument
BufferedArgs ==
    { << a[1], a[2], a[3], BufAddr >> : a \in PropertyArgs }
      \cup { << EntityAddr, CCSPlayerPawn, m_iHealth, NULL >> }

InitBoundary ==
    /\ loaded = << ExeObject >>
    /\ modules = [ id \in ModuleIds |-> NewModule ]
    /\ scanCall = NoScan
    /\ g_gameConfig = NewGameConfig
    /\ resolveHist = EmptyMap
    /\ offsetCall = NoOffsetCall
    /\ BridgeUnloaded
    /\ DetoursIdle
    /\ SchemaIdle
    /\ PluginIdle

\* the Go runtime called, with arguments args, an entity callback of the
\* table it was handed
CallbackOn(op, args, nullArg, r) ==
    /\ goProc.rt.callbacks
    /\ s_cache' = r.cache
    /\ boundaryCall' =
         [ op |-> op, nullArg |-> nullArg, called |-> {},
           changed |-> (r.cache # s_cache \/ r.notified # << >>), ret |-> r.ret,
           reads |-> r.reads, writes |-> r.writes, args |-> args,
           notified |-> r.notified ]
    /\ UNCHANGED << bridge, goProc, initAttempt, playerNotices, goCalls, handshake,
                    gs_pSchemaSystem, schemaCall, schemaCalls, schemaHist,
                    procVars, scanVars, configVars, detourVars, pluginVars >>

\* the Go runtime called a gamedata callback of the table
GamedataCallback(op, nullArg, r) ==
    /\ goProc.rt.callbacks
    /\ g_gameConfig' = r.cfg
    /\ boundaryCall' =
         [ op |-> op, nullArg |-> nullArg, called |-> {},
           changed |-> (r.cfg # g_gameConfig), ret |-> r.ret,
           reads |-> {}, writes |-> {} ]
    /\ UNCHANGED << bridge, goProc, initAttempt, playerNotices, goCalls, handshake,
                    resolveHist, offsetCall, procVars, scanVars, detourVars, schemaVars,
                    pluginVars >>

Callback(op, nullArg, r) == CallbackOn(op, << >>, nullArg, r)

NullProperty(entity, className, fieldName) ==
    entity = NULL \/ className = NullStr \/ fieldName = NullStr

CBEntityGetInt(entity, className, fieldName) ==
    Callback("CB_EntityGetInt", NullProperty(entity, className, fieldName),
             CB_EntityGetInt(s_cache, gs_pSchemaSystem, entity, className, fieldName, 100))

CBEntityGetFloat(entity, className, fieldName) ==
    Callback("CB_EntityGetFloat", NullProperty(entity, className, fieldName),
             CB_EntityGetFloat(s_cache, gs_pSchemaSystem, entity, className, fieldName, 100))

CBEntityGetBool(entity, className, fieldName) ==
    Callback("CB_EntityGetBool", NullProperty(entity, className, fieldName),
             CB_EntityGetBool(s_cache, gs_pSchemaSystem, entity, className, fieldName, 1))

CBEntitySetInt(entity, className, fieldName) ==
    CallbackOn("CB_EntitySetInt", << entity, className, fieldName >>,
               NullProperty(entity, className, fieldName),
               CB_EntitySetInt(s_cache, gs_pSchemaSystem, entity, className, fieldName))

CBEntitySetFloat(entity, className, fieldName) ==
    CallbackOn("CB_EntitySetFloat", << entity, className, fieldName >>,
               NullProperty(entity, className, fieldName),
               CB_EntitySetFloat(s_cache, gs_pSchemaSystem, entity, className, fieldName))

CBEntitySetBool(entity, className, fieldName) ==
    CallbackOn("CB_EntitySetBool", << entity, className, fieldName >>,
               NullProperty(entity, className, fieldName),
               CB_EntitySetBool(s_cache, gs_pSchemaSystem, entity, className, fieldName))

CBEntityGetString(entity, className, fieldName, buf, bufSize) ==
    Callback("CB_EntityGetString",
             NullProperty(entity, className, fieldName) \/ buf = NULL,
             CB_EntityGetString(s_cache, gs_pSchemaSystem, entity, className,
                                fieldName, buf, bufSize, 9))

CBEntityGetVector(entity, className, fieldName, out) ==
    Callback("CB_EntityGetVector",
             NullProperty(entity, className, fieldName) \/ out = NULL,
             CB_EntityGetVector(s_cache, gs_pSchemaSystem, entity, className,
                                fieldName, out))

CBEntitySetVector(entity, className, fieldName, value) ==
    CallbackOn("CB_EntitySetVector", << entity, className, fieldName, value >>,
               NullProperty(entity, className, fieldName) \/ value = NULL,
               CB_EntitySetVector(s_cache, gs_pSchemaSystem, entity, className,
                                  fieldName, value))

CBGetEntityIndex(entity, identity) ==
    Callback("CB_GetEntityIndex", entity = NULL,
             CB_GetEntityIndex(s_cache, entity, identity, 7))

CBGetEntityClassname(entity) ==
    Callback("CB_GetEntityClassname", entity = NULL,
             CB_GetEntityClassname(s_cache, entity, BufAddr))

CBIsEntityValid(entity, identity) ==
    Callback("CB_IsEntityValid", entity = NULL,
             CB_IsEntityValid(s_cache, entity, identity))

CBResolveGamedata(name) ==
    GamedataCallback("CB_ResolveGamedata", name = NullName,
                     CB_ResolveGamedata(g_gameConfig, name, modules, loaded))

CBGetGamedataOffset(name) ==
    GamedataCallback("CB_GetGamedataOffset", name = NullName,
                     CB_GetGamedataOffset(g_gameConfig, name))

NextBoundary ==
    \/ GoBridgeInit(CompleteGoFile, GS_OK)
    \/ GoBridgeRegisterCallbacks
    \/ AcquireSchemaSystem(FullHostSchema)
    \/ \E player \in BoundaryPlayers : GoBridgeOnPlayerConnect(player)
    \/ \E name \in EventNames, isPost \in BOOLEAN, goResult \in EventResults :
          GoBridgeFireEvent(name, isPost, goResult)
    \/ \E mapName \in MapNames : GoBridgeOnMapChange(mapName)
    \/ \E message \in Messages, goResult \in BOOLEAN :
          GoBridgeOnChatMessage(message, goResult)
    \/ \E a \in PropertyArgs : CBEntityGetInt(a[1], a[2], a[3])
    \/ \E a \in PropertyArgs : CBEntityGetFloat(a[1], a[2], a[3])
    \/ \E a \in PropertyArgs : CBEntityGetBool(a[1], a[2], a[3])
    \/ \E a \in PropertyArgs : CBEntitySetInt(a[1], a[2], a[3])
    \/ \E a \in PropertyArgs : CBEntitySetFloat(a[1], a[2], a[3])
    \/ \E a \in PropertyArgs : CBEntitySetBool(a[1], a[2], a[3])
    \/ \E a \in BufferedArgs, bufSize \in { 0, 4 } :
          CBEntityGetString(a[1], a[2], a[3], a[4], bufSize)
    \/ \E a \in BufferedArgs : CBEntityGetVector(a[1], a[2], a[3], a[4])
    \/ \E a \in BufferedArgs : CBEntitySetVector(a[1], a[2], a[3], a[4])
    \/ \E e \in Entities, identity \in { NULL, IdentityAddr } : CBGetEntityIndex(e, identity)
    \/ \E e \in Entities : CBGetEntityClassname(e)
    \/ \E e \in Entities, identity \in { NULL, IdentityAddr } : CBIsEntityValid(e, identity)
    \/ \E name \in NameArgs : CBResolveGamedata(name)
    \/ \E name \in NameArgs : CBGetGamedataOffset(name)

SpecBoundary == InitBoundary /\ [][NextBoundary]_vars

(***************************************************************************)
(* Properties of the boundary calls (SpecBoundary)                         *)
(***************************************************************************)
\* the value a callback or forwarder returns when it does nothing
Neutral(op) ==
    CASE op = "CB_GetGamedataOffset" -> -1
      [] op = "CB_GetEntityIndex" -> UINT32_MAX
      [] OTHER -> 0

Hook_FireEvent(b, go, nullEvent, name, goResult) ==
    IF nullEvent
    THEN [ meta |-> "MRES_IGNORED", ret |-> FALSE, bridge |-> b, go |-> go,
           called |-> {}, event |-> NoEvent ]
    ELSE LET r == GoBridge_FireEvent(b, go, name, FALSE, goResult) IN
         IF r.ret >= GS_EVENT_HANDLED
         THEN [ meta |-> "MRES_SUPERCEDE", ret |-> FALSE, bridge |-> r.bridge,
                go |-> r.go, called |-> r.called, event |-> r.event ]
         ELSE [ meta |-> "MRES_IGNORED", ret |-> TRUE, bridge |-> r.bridge,
                go |-> r.go, called |-> r.called, event |-> r.event ]

\* Hook_FireEventPost(pEvent, bDontBroadcast): the post-hook
Hook_FireEventPost(b, go, nullEvent, name, goResult) ==
    IF nullEvent
    THEN [ meta |-> "MRES_IGNORED", ret |-> FALSE, bridge |-> b, go |-> go,
           called |-> {}, event |-> NoEvent ]
    ELSE LET r == GoBridge_FireEvent(b, go, name, TRUE, goResult) IN
         [ meta |-> "MRES_IGNORED", ret |-> TRUE, bridge |-> r.bridge,
           go |-> r.go, called |-> r.called, event |-> r.event ]

(***************************************************************************)
(* SpecPlugin: the host drives the plugin. Load, Unload and                *)
(* AllPluginsLoaded run as whole handlers; the hooks Load and              *)
(* AllPluginsLoaded install fire in any order between them. libserver.so   *)
(* with Host_Say, TakeDamageOld and the event manager's vtable is mapped;  *)
(* the host has no player controller entity, so GoBridge_RefreshPlayerCache *)
(* reads nothing.                                                          *)
(***************************************************************************)
MaxLoads == 2

VTableSymbol == << "_", "Z", "T", "V", "2", "0", "C", "G", "a", "m", "e", "E", "v", "e", "n", "t", "M", "a", "n", "a", "g", "e", "r" >>
VTableAddr == 4100
PluginServer == ServerObject(HookBytes, MapPut(NoExports, VTableSymbol, VTableAddr))
SwitchTeamName == "CCSPlayerController_SwitchTeam"

(***************************************************************************)
(* The game-function wrappers (game_functions.cpp, player_manager.cpp).    *)
(* A virtual call is kept as the record of what CallVirtual was given.     *)
(***************************************************************************)
RespawnOffsetName == "CCSPlayerController_Respawn"
ChangeTeamOffsetName == "CCSPlayerController_ChangeTeam"
TeleportOffsetName == "CBaseEntity_Teleport"
CommitSuicideOffsetName == "CBasePlayerPawn_CommitSuicide"
RemoveWeaponsOffsetName == "CCSPlayer_ItemServices_RemoveWeapons"

CCSPlayerController ==
    << "C","C","S","P","l","a","y","e","r","C","o","n","t","r","o","l","l","e","r" >>
CBasePlayerController ==
    << "C","B","a","s","e","P","l","a","y","e","r","C","o","n","t","r","o","l","l","e","r" >>
CCSPlayerPawnBase ==
    << "C","C","S","P","l","a","y","e","r","P","a","w","n","B","a","s","e" >>
cs_player_controller ==
    << "c","s","_","p","l","a","y","e","r","_","c","o","n","t","r","o","l","l","e","r" >>
player_controller ==
    << "p","l","a","y","e","r","_","c","o","n","t","r","o","l","l","e","r" >>
m_hPlayerPawn == << "m","_","h","P","l","a","y","e","r","P","a","w","n" >>
m_hPawn == << "m","_","h","P","a","w","n" >>
m_pItemServices ==
    << "m","_","p","I","t","e","m","S","e","r","v","i","c","e","s" >>

\* the handle value of no entity (0xFFFFFFFF); a 32-bit handle is kept as
\* its two 16-bit halves
InvalidHandle == [ hi |-> 65535, lo |-> 65535 ]

\* CallVirtual<T>(instance, index, args...): the call through slot index of
\* the table instance points to
CallVirtual(instance, index, args) ==
    [ instance |-> instance, index |-> index, args |-> args ]

\* what the entity system and the game's memory hold for one player slot:
\* the entity at index slot + 1 and its class name, the handle stored in it,
\* the entity at the handle's entry index, and the pointer stored in that
\* entity's m_pItemServices
PlayerManager_GetController(host) ==
    IF host.entity = NULL THEN NULL
    ELSE IF host.classname = NullStr THEN NULL
    ELSE IF host.classname # cs_player_controller
            /\ host.classname # player_controller THEN NULL
    ELSE host.entity

\* the one element of a singleton: Only({ F(x) : x \in { e } }) is F of the
\* value of e, with e computed once
Only(S) == CHOOSE x \in S : TRUE

\* PlayerManager_GetPawn(slot): the pawn and the schema cache afterwards
PlayerManager_GetPawn(cache, sys, host) ==
    IF PlayerManager_GetController(host) = NULL THEN [ ret |-> NULL, cache |-> cache ]
    ELSE Only({ Only({
           IF key.ret.offset = 0 THEN [ ret |-> NULL, cache |-> key.cache ]
           ELSE IF host.m_hPlayerPawn = InvalidHandle
           THEN [ ret |-> NULL, cache |-> key.cache ]
           ELSE [ ret |-> host.byIndex[host.m_hPlayerPawn.lo % 32768],
                  cache |-> key.cache ] :
           key \in { IF first.ret.offset = 0
                     THEN schema_GetOffset(first.cache, sys, CBasePlayerController,
                                           m_hPawn)
                     ELSE first } }) :
           first \in { schema_GetOffset(cache, sys, CCSPlayerController,
                                        m_hPlayerPawn) } })

\* a wrapper that returned before any call
Returned(cache) == [ calls |-> << >>, cache |-> cache ]

\* GameFunc_Respawn calling whatever its slot index is
GameFunc_Respawn_AnyIndex(gf, cache, sys, host) ==
    LET controller == PlayerManager_GetController(host) IN
      IF controller = NULL THEN Returned(cache)
      ELSE [ calls |-> << CallVirtual(controller, gf.s_offsetRespawn, << >>) >>,
             cache |-> cache ]

\* GameFunc_Respawn(slot)
GameFunc_Respawn(gf, cache, sys, host) ==
    LET controller == PlayerManager_GetController(host) IN
      IF gf.s_offsetRespawn < 0 THEN Returned(cache)
      ELSE IF controller = NULL THEN Returned(cache)
      ELSE [ calls |-> << CallVirtual(controller, gf.s_offsetRespawn, << >>) >>,
             cache |-> cache ]

\* GameFunc_ChangeTeam(slot, team)
GameFunc_ChangeTeam(gf, cache, sys, host, team) ==
    LET controller == PlayerManager_GetController(host) IN
      IF gf.s_offsetChangeTeam < 0 THEN Returned(cache)
      ELSE IF controller = NULL THEN Returned(cache)
      ELSE [ calls |-> << CallVirtual(controller, gf.s_offsetChangeTeam, << team >>) >>,
             cache |-> cache ]

\* GameFunc_Slay(slot)
GameFunc_Slay(gf, cache, sys, host) ==
    IF gf.s_offsetCommitSuicide < 0 THEN Returned(cache)
    ELSE Only({
           IF pawn.ret = NULL THEN Returned(pawn.cache)
           ELSE [ calls |-> << CallVirtual(pawn.ret, gf.s_offsetCommitSuicide,
                                           << FALSE, TRUE >>) >>,
                  cache |-> pawn.cache ] :
           pawn \in { PlayerManager_GetPawn(cache, sys, host) } })

\* GameFunc_Teleport(slot, pos, angles, velocity)
GameFunc_Teleport(gf, cache, sys, host, pos, angles, velocity) ==
    IF gf.s_offsetTeleport < 0 THEN Returned(cache)
    ELSE Only({
           IF pawn.ret = NULL THEN Returned(pawn.cache)
           ELSE [ calls |-> << CallVirtual(pawn.ret, gf.s_offsetTeleport,
                                           << pos, angles, velocity >>) >>,
                  cache |-> pawn.cache ] :
           pawn \in { PlayerManager_GetPawn(cache, sys, host) } })

\* GameFunc_DropWeapons(slot)
GameFunc_DropWeapons(gf, cache, sys, host) ==
    IF gf.s_offsetRemoveWeapons < 0 THEN Returned(cache)
    ELSE Only({
           IF pawn.ret = NULL THEN Returned(pawn.cache)
           ELSE Only({
                  IF itemServicesKey.ret.offset <= 0
                  THEN Returned(itemServicesKey.cache)
                  ELSE IF host.m_pItemServices = NULL
                  THEN Returned(itemServicesKey.cache)
                  ELSE [ calls |-> << CallVirtual(host.m_pItemServices,
                                                  gf.s_offsetRemoveWeapons, << >>) >>,
                         cache |-> itemServicesKey.cache ] :
                  itemServicesKey \in { schema_GetOffset(pawn.cache, sys,
                                                         CCSPlayerPawnBase,
                                                         m_pItemServices) } }) :
           pawn \in { PlayerManager_GetPawn(cache, sys, host) } })

\* GameFunctions_Initialize(): the statics and the configuration afterwards
GameFunctions_Initialize(gf, cfg, mods, objs) ==
    LET attacker == GameConfig_GetOffset(cfg, "CTakeDamageInfo_attacker")
        damage == GameConfig_GetOffset(cfg, "CTakeDamageInfo_damage")
        damageType == GameConfig_GetOffset(cfg, "CTakeDamageInfo_damageType")
        r == GameConfig_ResolveSignature(cfg, SwitchTeamName, mods, objs)
    IN [ gf |->
           [ gf EXCEPT
               !.s_offsetRespawn = GameConfig_GetOffset(cfg, RespawnOffsetName),
               !.s_offsetChangeTeam = GameConfig_GetOffset(cfg, ChangeTeamOffsetName),
               !.s_offsetTeleport = GameConfig_GetOffset(cfg, TeleportOffsetName),
               !.s_offsetCommitSuicide =
                   GameConfig_GetOffset(cfg, CommitSuicideOffsetName),
               !.s_offsetSetModel = -1,
               !.s_offsetRemoveWeapons =
                   GameConfig_GetOffset(cfg, RemoveWeaponsOffsetName),
               !.s_offsetDamageAttacker = IF attacker >= 0 THEN attacker ELSE @,
               !.s_offsetDamage = IF damage >= 0 THEN damage ELSE @,
               !.s_offsetDamageType = IF damageType >= 0 THEN damageType ELSE @,
               !.s_fnSwitchTeam = IF r.ret # NULL THEN r.ret ELSE @ ],
         cfg |-> r.cfg ]

\* funchook succeeding throughout, and failing at install
HooksWork == [ netMessages |-> "found", createOk |-> TRUE, prepareOk |-> TRUE,
               installOk |-> TRUE ]
InstallFails == [ HooksWork EXCEPT !.installOk = FALSE ]
\* what the host hands to Load: (late, ifaces, gamedata, goFile, initErr,
\* error, maxlen)
HostBuffer == << TRUE, 64 >>
LoadArgs ==
    { << FALSE, TRUE, TRUE, CompleteGoFile, GS_OK, HostBuffer[1], HostBuffer[2] >>,
      << TRUE, TRUE, TRUE, CompleteGoFile, GS_OK, HostBuffer[1], HostBuffer[2] >>,
      << FALSE, FALSE, TRUE, CompleteGoFile, GS_OK, HostBuffer[1], HostBuffer[2] >>,
      << FALSE, TRUE, TRUE, CompleteGoFile, GS_ERR_INIT_FAILED, HostBuffer[1], HostBuffer[2] >> }
\* what AllPluginsLoaded finds: (entities, envD, envC)
AllPluginsLoadedArgs ==
    { << TRUE, HooksWork, HooksWork >>, << FALSE, HooksWork, InstallFails >> }
\* a fired event: (nullEvent, name, goResult)
FireEventArgs ==
    { << TRUE, round_start, GS_EVENT_CONTINUE >>,
      << FALSE, NullStr, GS_EVENT_CONTINUE >> }
    \cup { << FALSE, round_start, r >> : r \in EventResults }

InstalledHooks(fh) == { h \in DOMAIN fh.hooks : fh.hooks[h].state = "installed" }

InitPlugin ==
    /\ loaded = << ExeObject, PluginServer >>
    /\ modules = [ id \in ModuleIds |-> NewModule ]
    /\ scanCall = NoScan
    /\ g_gameConfig = NewGameConfig
    /\ resolveHist = EmptyMap
    /\ offsetCall = NoOffsetCall
    /\ BridgeUnloaded
    /\ DetoursIdle
    /\ SchemaIdle
    /\ PluginIdle

Called(op, ret) == [ NoPluginCall EXCEPT !.op = op, !.ret = ret ]

\* the text GET_V_IFACE formats, and the one Load stores at gostrike.cpp:257
InterfaceText ==
    << "C", "o", "u", "l", "d", " ", "n", "o", "t", " ", "f", "i", "n", "d", " ", "i", "n", "t", "e", "r", "f", "a", "c", "e" >>
GoRuntimeText ==
    << "F", "a", "i", "l", "e", "d", " ", "t", "o", " ", "i", "n", "i", "t", "i", "a", "l", "i", "z", "e", " ", "G", "o", " ", "r", "u", "n", "t", "i", "m", "e" >>

\* a Load that leaves the buffer alone
snprintf_Skipped(error, maxlen, text) == NotWritten

\* snprintf(error, maxlen, text) under `if (error && maxlen > 0)`: at most
\* maxlen - 1 characters and the terminator are stored
snprintf(error, maxlen, text) ==
    IF error /\ maxlen > 0
    THEN SubSeq(text, 1, Min({ Len(text), maxlen - 1 }))
    ELSE NotWritten

Failed(step, error, maxlen, text) ==
    [ buffer |-> error, maxlen |-> maxlen, step |-> step,
      text |-> snprintf(error, maxlen, text) ]

\* GoStrikePlugin::Load(id, ismm, error, maxlen, late): ifaces says whether
\* the engine has every interface Load asks for, gamedata whether a
\* gamedata.json is found
Load(late, ifaces, gamedata, goFile, initErr, error, maxlen) ==
    /\ plugin.g_loadCount < MaxLoads
    /\ goProc.refs < MaxGoRefs
    /\ LET p1 == [ plugin EXCEPT
                     !.m_bLateLoad = late,
                     !.g_loadCount = @ + 1,
                     !.g_bServerFullyInitialized = @ \/ late \/ plugin.g_loadCount + 1 > 1 ]
       IN
       IF ~ifaces
       THEN /\ plugin' = [ p1 EXCEPT !.loaded = FALSE, !.listeners = 0 ]
            /\ pluginCall' = [ Called("Load", FALSE) EXCEPT
                                 !.error = Failed("interfaces", error, maxlen, InterfaceText) ]
            /\ UNCHANGED << procVars, scanVars, configVars, bridgeVars, detourVars,
                            schemaVars >>
       ELSE
       LET mods == [ id \in ModuleIds |->
                       Module_Initialize(modules[id], ModuleFile(id), loaded).m ]
           cfg == IF gamedata THEN GameConfig_Init(g_gameConfig, HookGameData).cfg
                  ELSE g_gameConfig
           pVTable == IF IsInitialized(mods["server"])
                      THEN FindSymbol(mods["server"], VTableSymbol, loaded) ELSE NULL
           p2 == [ p1 EXCEPT !.sourceHooks = TRUE,
                             !.g_iLoadEventsFromFileHookId = @ \/ pVTable # NULL ]
           o == DlOpenGo(goProc, goFile)
           r == GoBridge_Init(bridge, goProc, goFile, initErr)
           reg == GoBridge_RegisterCallbacks(r.bridge, r.go)
           h1 == AfterInit(handshake, goProc, o.go, r)
       IN /\ gs_pSchemaSystem' = FullHostSchema
          /\ modules' = mods
          /\ g_gameConfig' = cfg
          /\ s_cache' = schema_Initialize(s_cache)
          /\ playerNotices' = IF bridge.g_initialized THEN playerNotices ELSE {}
          /\ initAttempt' =
               IF bridge.g_initialized
               THEN [ NoAttempt EXCEPT !.made = TRUE, !.already = TRUE, !.ret = r.ret ]
               ELSE [ made |-> TRUE, already |-> FALSE, opened |-> o.handle # NULL,
                      image |-> o.go.image, initErr |-> initErr, ret |-> r.ret ]
          /\ IF ~r.ret
             THEN /\ bridge' = r.bridge
                  /\ goProc' = r.go
                  /\ goCalls' = r.called
                  /\ handshake' = h1
                  /\ plugin' = [ p2 EXCEPT !.loaded = FALSE, !.listeners = 0,
                                           !.handoffs = 0 ]
                  /\ pluginCall' = [ Called("Load", FALSE) EXCEPT
                                       !.error = Failed("GoBridge_Init", error, maxlen, GoRuntimeText) ]
             ELSE /\ bridge' = reg.bridge
                  /\ goProc' = reg.go
                  /\ goCalls' = r.called \cup reg.called
                  /\ handshake' = AfterCalls(h1, reg.go, reg.called)
                  /\ plugin' =
                       [ p2 EXCEPT
                           !.loaded = TRUE,
                           !.listeners = @ + 1,
                           !.handoffs =
                               ( IF bridge.g_initialized THEN @ ELSE 0 )
                               + ( IF "GoStrike_RegisterCallbacks" \in reg.called
                                   THEN 1 ELSE 0 ) ]
                  /\ pluginCall' = Called("Load", TRUE)
          /\ UNCHANGED << loaded, scanVars, resolveHist, offsetCall, boundaryCall, detourVars,
                          schemaCall, schemaCalls, schemaHist >>

\* the text Unload stores at gostrike.cpp:283
CannotUnloadText ==
    << "C", "a", "n", "n", "o", "t", " ", "u", "n", "l", "o", "a", "d", " ", "d", "u", "r", "i", "n", "g", " ", "s", "e", "r", "v", "e", "r", " ", "i", "n", "i", "t", "i", "a", "l", "i", "z", "a", "t", "i", "o", "n" >>

\* the test at gostrike.cpp:280: the server is not fully initialized
EarlyUnloadCycle(p) == ~p.g_bServerFullyInitialized

\* GoStrikePlugin::Unload(error, maxlen)
Unload(error, maxlen) ==
    /\ plugin.loaded
    /\ IF EarlyUnloadCycle(plugin)
       THEN /\ pluginCall' = [ Called("Unload", FALSE) EXCEPT
                                 !.error = Failed("refused", error, maxlen,
                                                  CannotUnloadText) ]
            /\ UNCHANGED << plugin, procVars, scanVars, configVars, bridgeVars,
                            detourVars, schemaVars >>
       ELSE
       \E d \in { GameFunc_ShutdownDamageHook(damageHook, funchooks) } :
       \E c \in { ChatManager_Shutdown(chatManager, d.fh) } :
       \E s \in { GoBridge_Shutdown(bridge, goProc) } :
          /\ damageHook' = d.dmg
          /\ chatManager' = c.chat
          /\ funchooks' = c.fh
          /\ UNCHANGED << detourStack, gameFunctions, gameFuncCall >>
          /\ detourHist' =
               Removed(Removed(detourHist, "damage", damageHook.s_pDamageHook, funchooks),
                       "chat", chatManager.s_pFunchook, d.fh)
          /\ bridge' = s.bridge
          /\ goProc' = s.go
          /\ goCalls' = goCalls \cup s.called
          /\ handshake' = AfterCalls(handshake, s.go, s.called)
          /\ plugin' =
               [ plugin EXCEPT
                   !.entityListener = FALSE,
                   !.g_bFireEventHooked =
                       IF @ /\ plugin.gs_pGameEventManager THEN FALSE ELSE @,
                   !.fireEventHooks =
                       IF plugin.g_bFireEventHooked /\ plugin.gs_pGameEventManager
                       THEN @ - 1 ELSE @,
                   !.g_iLoadEventsFromFileHookId = FALSE,
                   !.sourceHooks = FALSE,
                   !.loaded = FALSE, !.listeners = 0, !.handoffs = 0 ]
          /\ pluginCall' = [ Called("Unload", TRUE) EXCEPT
                               !.installed = InstalledHooks(c.fh) ]
          /\ UNCHANGED << procVars, scanVars, configVars, initAttempt, playerNotices,
                          boundaryCall, schemaVars >>

\* GoStrikePlugin::AllPluginsLoaded(): entities says whether the entity
\* system is found, envD and envC what funchook answers for the two detours
AllPluginsLoaded(entities, envD, envC) ==
    /\ plugin.loaded
    /\ plugin.listeners > 0
    /\ funchooks.next <= MaxHooks
    /\ \E g \in { GameFunctions_Initialize(gameFunctions, g_gameConfig,
                                             modules, loaded) } :
       \E d \in { GameFunc_InitDamageHook(damageHook, g.cfg, modules, loaded,
                                          funchooks, envD) } :
       \E c \in { ChatManager_Initialize(chatManager, d.cfg, modules, loaded,
                                         d.fh, envC) } :
          /\ g_gameConfig' = c.cfg
          /\ damageHook' = d.dmg
          /\ chatManager' = c.chat
          /\ funchooks' = c.fh
          /\ gameFunctions' = g.gf
          /\ UNCHANGED << detourStack, gameFuncCall >>
          /\ detourHist' =
               Registered(Registered(detourHist, "damage", d.dmg.s_pDamageHook, d.fh,
                                     CachedTarget(d.cfg, TakeDamageOldName)),
                          "chat", c.chat.s_pFunchook, c.fh,
                          CachedTarget(c.cfg, HostSayName))
    /\ plugin' = [ plugin EXCEPT
                     !.g_bServerFullyInitialized = TRUE,
                     !.listeners = @ - 1,
                     !.entityListener = @ \/ entities,
                     !.g_bFireEventHooked = @ \/ plugin.gs_pGameEventManager,
                     !.fireEventHooks =
                         IF plugin.gs_pGameEventManager /\ ~plugin.g_bFireEventHooked
                         THEN @ + 1 ELSE @ ]
    /\ pluginCall' = Called("AllPluginsLoaded", TRUE)
    /\ UNCHANGED << procVars, scanVars, resolveHist, offsetCall, bridgeVars, schemaVars >>

\* a hook or detour of the plugin forwarded a notification with answer r
NotifyOf(op, p, r, meta, ret, goResult, detour) ==
    /\ plugin' = p
    /\ bridge' = r.bridge
    /\ goProc' = r.go
    /\ goCalls' = goCalls \cup r.called
    /\ handshake' = AfterCalls(handshake, r.go, r.called)
    /\ pluginCall' =
         [ op |-> op, ret |-> ret, meta |-> meta,
           goResult |-> IF r.called = {} THEN 0 ELSE goResult,
           invoked |-> r.called # {},
           can_modify |-> IF "event" \in DOMAIN r THEN r.event.can_modify ELSE FALSE,
           early |-> r.called # {} /\ ~goProc.rt.callbacks,
           installed |-> {}, error |-> NoError, detour |-> detour ]
    /\ playerNotices' = AfterNotice(playerNotices, r)
    /\ UNCHANGED << procVars, scanVars, configVars, initAttempt, boundaryCall,
                    detourVars, schemaVars >>

Notify(op, p, r, meta, ret, goResult) ==
    NotifyOf(op, p, r, meta, ret, goResult, NoDetourCall)

\* GoStrikePlugin::Hook_GameFrame
HookGameFrame ==
    /\ plugin.sourceHooks
    /\ Notify("Hook_GameFrame",
              [ plugin EXCEPT !.g_bServerFullyInitialized = TRUE ],
              GoBridge_OnTick(bridge, goProc), "MRES_IGNORED", TRUE, 0)

\* GoStrikePlugin::Hook_ClientConnect: the gs_player_t is a local
HookClientConnect(slot) ==
    /\ plugin.sourceHooks
    /\ Notify("Hook_ClientConnect", plugin,
              GoBridge_OnPlayerConnect(bridge, goProc, PlayerIn(slot)),
              "MRES_IGNORED", TRUE, 0)

\* GoStrikePlugin::Hook_ClientDisconnect
HookClientDisconnect(slot) ==
    /\ plugin.sourceHooks
    /\ Notify("Hook_ClientDisconnect", plugin,
              GoBridge_OnPlayerDisconnect(bridge, goProc, slot),
              "MRES_IGNORED", TRUE, 0)

\* Hook_LoadEventsFromFile adding the FireEvent hooks at every call
HookLoadEventsFromFile_Unguarded ==
    /\ plugin.g_iLoadEventsFromFileHookId
    /\ plugin' = [ plugin EXCEPT !.gs_pGameEventManager = TRUE,
                                 !.g_bFireEventHooked = TRUE,
                                 !.fireEventHooks = @ + 1 ]
    /\ pluginCall' = [ Called("Hook_LoadEventsFromFile", FALSE) EXCEPT
                         !.meta = "MRES_IGNORED" ]
    /\ UNCHANGED << procVars, scanVars, configVars, bridgeVars, detourVars,
                    schemaVars >>

\* GoStrikePlugin::Hook_LoadEventsFromFile: the first call captures the
\* event manager and hooks FireEvent
HookLoadEventsFromFile ==
    /\ plugin.g_iLoadEventsFromFileHookId
    /\ plugin' = IF plugin.gs_pGameEventManager THEN plugin
                 ELSE [ plugin EXCEPT !.gs_pGameEventManager = TRUE,
                                      !.g_bFireEventHooked = TRUE,
                                      !.fireEventHooks =
                                          IF plugin.g_bFireEventHooked THEN @ ELSE @ + 1 ]
    /\ pluginCall' = [ Called("Hook_LoadEventsFromFile", FALSE) EXCEPT
                         !.meta = "MRES_IGNORED" ]
    /\ UNCHANGED << procVars, scanVars, configVars, bridgeVars, detourVars,
                    schemaVars >>

HookFireEvent(nullEvent, name, goResult) ==
    /\ plugin.fireEventHooks > 0
    /\ LET r == Hook_FireEvent(bridge, goProc, nullEvent, name, goResult)
       IN Notify("Hook_FireEvent", plugin, r, r.meta, r.ret, goResult)

HookFireEventPost(nullEvent, name, goResult) ==
    /\ plugin.fireEventHooks > 0
    /\ LET r == Hook_FireEventPost(bridge, goProc, nullEvent, name, goResult)
       IN Notify("Hook_FireEventPost", plugin, r, r.meta, r.ret, goResult)

\* DetourHostSay, entered while Host_Say is redirected
DetourHostSay(pController, argc, rawMsg, goResult) ==
    /\ HostSayName \in DOMAIN g_gameConfig.m_addressCache
    /\ TextAt(funchooks, g_gameConfig.m_addressCache[HostSayName]) # << >>
    /\ \E d \in { HostSayReplacement(bridge, goProc, pController, argc, rawMsg,
                                       goResult) } :
       \E o \in IF d.callsOriginal
                THEN CallOutcomes(funchooks, chatManager.s_pOriginalHostSay)
                ELSE { "returned" } :
          NotifyOf("DetourHostSay", plugin, d.r, "none", d.r.ret,
                   IF goResult THEN 1 ELSE 0,
                   [ ready |-> bridge.g_initialized, forwarded |-> d.forwarded,
                     handled |-> d.r.ret,
                     original |-> IF o = "original" THEN 1 ELSE 0,
                     outcome |-> IF o = "original" THEN "returned" ELSE o ])

\* DetourTakeDamageOld, entered while CBaseEntity_TakeDamageOld is redirected
DetourTakeDamageOld(entity, damageInfo, result) ==
    /\ TakeDamageOldName \in DOMAIN g_gameConfig.m_addressCache
    /\ TextAt(funchooks, g_gameConfig.m_addressCache[TakeDamageOldName]) # << >>
    /\ \E d \in { TakeDamageOldReplacement(entity, damageInfo, result) } :
       \E o \in IF d.callsOriginal
                THEN CallOutcomes(funchooks, damageHook.s_pOriginalTakeDamageOld)
                ELSE { "returned" } :
          NotifyOf("DetourTakeDamageOld", plugin,
                   [ ret |-> TRUE, bridge |-> bridge, go |-> goProc, called |-> {} ],
                   "none", TRUE, 0,
                   [ ready |-> bridge.g_initialized, forwarded |-> d.forwarded,
                     handled |-> d.handled,
                     original |-> IF o = "original" THEN 1 ELSE 0,
                     outcome |-> IF o = "original" THEN "returned" ELSE o ])

\* GoStrikeEntityListener::OnEntityCreated / OnEntitySpawned / OnEntityDeleted
EntityListenerOnEntityCreated ==
    /\ plugin.entityListener
    /\ Notify("OnEntityCreated", plugin, GoBridge_OnEntityCreated(bridge, goProc),
              "none", TRUE, 0)

EntityListenerOnEntitySpawned ==
    /\ plugin.entityListener
    /\ Notify("OnEntitySpawned", plugin, GoBridge_OnEntitySpawned(bridge, goProc),
              "none", TRUE, 0)

EntityListenerOnEntityDeleted ==
    /\ plugin.entityListener
    /\ Notify("OnEntityDeleted", plugin, GoBridge_OnEntityDeleted(bridge, goProc),
              "none", TRUE, 0)

NextPlugin ==
    \/ \E a \in LoadArgs : Load(a[1], a[2], a[3], a[4], a[5], a[6], a[7])
    \/ Unload(HostBuffer[1], HostBuffer[2])
    \/ \E a \in AllPluginsLoadedArgs : AllPluginsLoaded(a[1], a[2], a[3])
    \/ HookGameFrame
    \/ \E slot \in { 0 } : HookClientConnect(slot)
    \/ \E slot \in { 0 } : HookClientDisconnect(slot)
    \/ HookLoadEventsFromFile
    \/ \E a \in FireEventArgs : HookFireEvent(a[1], a[2], a[3])
    \/ \E a \in FireEventArgs : HookFireEventPost(a[1], a[2], a[3])
    \/ \E goResult \in BOOLEAN : DetourHostSay(EntityAddr, 2, hello, goResult)
    \/ EntityListenerOnEntityCreated
    \/ EntityListenerOnEntitySpawned
    \/ EntityListenerOnEntityDeleted

SpecPlugin == InitPlugin /\ [][NextPlugin]_vars

(***************************************************************************)
(* C14: every successful Unload uninstalls the damage detour and the chat  *)
(* detour before GoBridge_Shutdown, and after Unload returns true no       *)
(* detour is installed. As stated: the detours left installed when Unload  *)
(* returns true are none.                                                  *)
(***************************************************************************)
C14_NoDetourAfterUnload ==
    ( pluginCall.op = "Unload" /\ pluginCall.ret ) => pluginCall.installed = {}

(***************************************************************************)
(* C15: no host notification is forwarded into the secondary runtime       *)
(* before the callback table has been handed over by                       *)
(* GoBridge_RegisterCallbacks. Whenever a hook, detour or entity listener  *)
(* of the plugin has just invoked a Go entry point, the runtime already    *)
(* held the table when the forwarder began, and the handoff belongs to the *)
(* current initialization.                                                 *)
(***************************************************************************)
C15_RegisteredBeforeForward ==
    pluginCall.invoked =>
        /\ ~pluginCall.early
        /\ plugin.handoffs >= 1
        /\ bridge.g_initialized
        /\ goProc.rt.initialised /\ goProc.rt.callbacks

\* a chat message reached Go through the Host_Say detour after the second
\* Load of a session
C15_Witness ==
    /\ pluginCall.op = "DetourHostSay" /\ pluginCall.invoked
    /\ plugin.g_loadCount = 2
    /\ { "GoStrike_OnTick", "GoStrike_OnEvent", "GoStrike_OnEntitySpawned" }
           \subseteq goCalls

(***************************************************************************)
(* C17: the callback table is handed to the secondary runtime exactly once *)
(* per bridge initialization and is never written afterwards. As stated:   *)
(* while the bridge stays initialized, GoStrike_RegisterCallbacks has been *)
(* invoked (and the static table filled) at most once.                     *)
(***************************************************************************)
C17_HandedOverOnce == plugin.handoffs <= 1

(***************************************************************************)
(* C18: the value Go returns for a pre-hook event is relayed by its ABI    *)
(* meaning: GS_EVENT_CONTINUE, GS_EVENT_CHANGED and GS_EVENT_HANDLED let   *)
(* the event proceed and only GS_EVENT_STOP supersedes it; a post-hook     *)
(* never changes the host outcome and passes the event with                *)
(* can_modify = false.                                                     *)
(***************************************************************************)
C18_DecisionRelayed ==
    /\ ( pluginCall.op = "Hook_FireEvent" /\ pluginCall.invoked ) =>
          /\ pluginCall.can_modify
          /\ ( pluginCall.meta = "MRES_SUPERCEDE" <=>
                  pluginCall.goResult = GS_EVENT_STOP )
          /\ ( pluginCall.meta = "MRES_IGNORED" <=>
                  pluginCall.goResult \in { GS_EVENT_CONTINUE, GS_EVENT_CHANGED,
                                            GS_EVENT_HANDLED } )
    /\ pluginCall.op = "Hook_FireEventPost" =>
          /\ pluginCall.meta = "MRES_IGNORED"
          /\ pluginCall.invoked => ~pluginCall.can_modify

(***************************************************************************)
(* SpecLoad: the host loads and unloads the plugin against every Go        *)
(* library the path may hold, and hands Load an error buffer of any size   *)
(* or none.                                                                *)
(***************************************************************************)
ErrorBuffers == { << FALSE, 0 >>, << TRUE, 0 >>, << TRUE, 1 >>, << TRUE, 8 >>, HostBuffer }

LoadFromFile ==
    \E goFile \in GoFiles, initErr \in InitErrs, buf \in ErrorBuffers :
        Load(FALSE, TRUE, TRUE, goFile, initErr, buf[1], buf[2])

LoadLate ==
    \E ifaces \in BOOLEAN, buf \in ErrorBuffers :
        Load(TRUE, ifaces, FALSE, CompleteGoFile, GS_OK, buf[1], buf[2])

NextLoad ==
    \/ LoadFromFile
    \/ LoadLate
    \/ Unload(HostBuffer[1], HostBuffer[2])
    \/ HookGameFrame

SpecLoad == InitPlugin /\ [][NextLoad]_vars

\* why the GoBridge_Init of the last Load failed
OpenFailed == initAttempt.made /\ ~initAttempt.already /\ ~initAttempt.opened
EntryPointMissing ==
    /\ initAttempt.made /\ ~initAttempt.already /\ initAttempt.opened
    /\ FirstMissing(initAttempt.image.exports) # 0
VersionMismatched ==
    /\ initAttempt.made /\ ~initAttempt.already /\ initAttempt.opened
    /\ FirstMissing(initAttempt.image.exports) = 0
    /\ initAttempt.image.abi # GOSTRIKE_ABI_VERSION
RuntimeInitFailed ==
    /\ initAttempt.made /\ ~initAttempt.already /\ initAttempt.opened
    /\ FirstMissing(initAttempt.image.exports) = 0
    /\ initAttempt.image.abi = GOSTRIKE_ABI_VERSION
    /\ initAttempt.initErr # GS_OK
BridgeLoadFailed ==
    /\ pluginCall.op = "Load"
    /\ pluginCall.error.step = "GoBridge_Init"

(***************************************************************************)
(* C21: every bridge load failure before Initialized surfaces an error     *)
(* string the host can retrieve after the failed GoBridge_Init returned,   *)
(* for each cause (open failure, missing entry point, version mismatch,    *)
(* runtime init failure). The failure is one of the four causes, Load      *)
(* answers false, and a host buffer with room for a character holds the    *)
(* leading part of Load's message; the bridge's own last-error retrieval   *)
(* hands out nothing once Init has failed.                                 *)
(***************************************************************************)
C21_LoadFailureSurfacesError ==
    BridgeLoadFailed =>
        /\ OpenFailed \/ EntryPointMissing \/ VersionMismatched \/ RuntimeInitFailed
        /\ ~pluginCall.ret /\ ~bridge.g_initialized
        /\ GoBridge_GetLastError(bridge, goProc, GoRuntimeText) = NullStr
        /\ ( pluginCall.error.buffer /\ pluginCall.error.maxlen > 1 ) =>
              /\ pluginCall.error.text # << >>
              /\ pluginCall.error.text =
                    SubSeq(GoRuntimeText, 1,
                           Min({ Len(GoRuntimeText), pluginCall.error.maxlen - 1 }))

\* a Load that failed on a version mismatch left its message in the buffer
C21_Witness ==
    /\ BridgeLoadFailed /\ VersionMismatched
    /\ pluginCall.error.text = GoRuntimeText

(***************************************************************************)
(* SpecResolve: gamedata with scanned and '@' entries resolved while the   *)
(* host maps libserver.so, libengine2.so and libtier0.so in any order.     *)
(* libserver.so and libtier0.so both export CreateInterface.               *)
(***************************************************************************)
Tier0Object ==
    [ dlpi_name |-> << "/", "g", "/" >> \o LibTier0So, dlpi_addr |-> 20480,
      phdr |-> << [ p_type |-> "PT_LOAD", p_vaddr |-> 0, p_memsz |-> 2 ] >>,
      bytes |-> << 144, 195 >>,
      exports |-> [ n \in { CreateInterface } |-> 20481 ], global |-> TRUE ]

ResolveObjects == { ScenarioServer, EngineObject, Tier0Object }

\* gamedata.json with a second '@' entry, owned by libengine2.so, which
\* exports nothing
GameData3 ==
    [ readable |-> TRUE,
      items |->
        [ k \in DOMAIN GameData1.items \cup { "SymEngine" } |->
            IF k = "SymEngine"
            THEN SigEntry(<< "engine" >>, << Sig_AtCreateInterface >>)
            ELSE GameData1.items[k] ] ]

SymbolNames == { "Sym", "SymEngine" }

NextResolve ==
    \/ \E obj \in ResolveObjects : MapLibrary(obj)
    \/ \E id \in ModuleIds : ModuleInitialize(id)
    \/ \E file \in { GameData3, Unreadable } : GameConfigInit(file)
    \/ \E name \in ResolveNames \cup SymbolNames : ResolveSignature(name)

SpecResolve == InitConfig /\ [][NextResolve]_vars

\* the step is a ResolveSignature(n) call that returned null
ResolveFailed(n) ==
    /\ n \in DOMAIN resolveHist'
    /\ resolveHist'[n].calls = HistOf(n).calls + 1
    /\ resolveHist'[n].last = NULL

(***************************************************************************)
(* C22: a ResolveSignature call that fails (no config entry, unknown or    *)
(* unmapped library, scan miss, symbol miss) returns null and changes      *)
(* nothing but, possibly, the cache entry of its own name: the signature,  *)
(* library and offset tables, the module registry and the loaded objects   *)
(* stay as they were, no other cache entry is added, removed or changed,   *)
(* and an entry for the name itself holds null.                            *)
(***************************************************************************)
C22_FailureChangesNothingElse ==
    [][ \A n \in ResolveNames \cup SymbolNames :
          ResolveFailed(n) =>
            /\ g_gameConfig'.m_signatures = g_gameConfig.m_signatures
            /\ g_gameConfig'.m_libraries = g_gameConfig.m_libraries
            /\ g_gameConfig'.m_offsets = g_gameConfig.m_offsets
            /\ modules' = modules /\ loaded' = loaded
            /\ DOMAIN g_gameConfig.m_addressCache
                  \subseteq DOMAIN g_gameConfig'.m_addressCache
            /\ DOMAIN g_gameConfig'.m_addressCache
                  \subseteq DOMAIN g_gameConfig.m_addressCache \cup { n }
            /\ \A m \in DOMAIN g_gameConfig.m_addressCache :
                  g_gameConfig'.m_addressCache[m] = g_gameConfig.m_addressCache[m]
            /\ n \in DOMAIN g_gameConfig'.m_addressCache =>
                  g_gameConfig'.m_addressCache[n] = NULL ]_vars

\* a symbol miss and a scan miss were cached as null, an unknown library
\* returned null uncached, and the address found for Sym is still cached
C22_Witness ==
    /\ { "Sym", "SymEngine", "Miss" } \subseteq DOMAIN g_gameConfig.m_addressCache
    /\ g_gameConfig.m_addressCache["Sym"] = 4608
    /\ g_gameConfig.m_addressCache["SymEngine"] = NULL
    /\ g_gameConfig.m_addressCache["Miss"] = NULL
    /\ IsInitialized(modules["engine"])
    /\ resolveHist["Miss"].scans = 1 /\ resolveHist["SymEngine"].symbols = 1

(***************************************************************************)
(* The entity setters driven directly (SpecEntity): the Go runtime, once   *)
(* it has the callback table, writes fields of two entities: networked     *)
(* ones, plain ones, unknown ones, and with each argument null in turn.    *)
(***************************************************************************)
Entity2Addr == 16384

\* the arguments of a setter: each of them null in turn, a networked field
\* of either entity, a field not flagged networked, a field declared two
\* levels up (answered {0, false}) and a field of a class of the global scope
EntitySetArgs ==
    { << NULL, CCSPlayerPawn, m_iHealth, BufAddr >>,
      << EntityAddr, NullStr, m_iHealth, BufAddr >>,
      << EntityAddr, CCSPlayerPawn, NullStr, BufAddr >>,
      << EntityAddr, CCSPlayerPawn, m_iHealth, NULL >>,
      << EntityAddr, CCSPlayerPawn, m_iHealth, BufAddr >>,
      << Entity2Addr, CCSPlayerPawn, m_iHealth, BufAddr >>,
      << EntityAddr, CCSPlayerPawn, m_iTeamNum, BufAddr >>,
      << EntityAddr, CCSPlayerPawn, m_pEntity, BufAddr >>,
      << Entity2Addr, CGlobalOnly, m_flags, BufAddr >> }

NextEntity ==
    \/ GoBridgeInit(CompleteGoFile, GS_OK)
    \/ GoBridgeRegisterCallbacks
    \/ AcquireSchemaSystem(FullHostSchema)
    \/ SchemaInitialize
    \/ \E a \in EntitySetArgs : CBEntitySetInt(a[1], a[2], a[3])
    \/ \E a \in EntitySetArgs : CBEntitySetFloat(a[1], a[2], a[3])
    \/ \E a \in EntitySetArgs : CBEntitySetBool(a[1], a[2], a[3])
    \/ \E a \in EntitySetArgs : CBEntitySetVector(a[1], a[2], a[3], a[4])

SpecEntity == InitBoundary /\ [][NextEntity]_vars

\* what the schema resolver answers for a field before the call
ResolvedKey(className, fieldName) ==
    schema_GetOffset(s_cache, gs_pSchemaSystem, className, fieldName).ret

\* the write and the notifications a setter owes for its arguments
SetterEffect(entity, className, fieldName, nullArg) ==
    IF nullArg \/ ResolvedKey(className, fieldName).offset = 0
    THEN /\ boundaryCall'.writes = {}
         /\ boundaryCall'.notified = << >>
    ELSE LET key == ResolvedKey(className, fieldName) IN
         /\ boundaryCall'.writes = { entity + key.offset }
         /\ boundaryCall'.notified =
              IF key.networked
              THEN << [ entity |-> entity, offset |-> key.offset ] >>
              ELSE << >>

\* C24: a call of CB_EntitySetInt, CB_EntitySetFloat, CB_EntitySetBool or
\* CB_EntitySetVector on a field flagged networked writes the field and
\* sends exactly one change notification for that entity with the field's
\* resolved offset; on a field not flagged networked it writes and sends
\* none; when the field resolves to offset 0 or an argument is null it
\* neither writes nor notifies.
C24_NetworkedWriteNotifiedOnce ==
    [][ boundaryCall'.op \in { "CB_EntitySetInt", "CB_EntitySetFloat",
                               "CB_EntitySetBool", "CB_EntitySetVector" } =>
          LET a == boundaryCall'.args IN
          /\ ( \/ CBEntitySetInt(a[1], a[2], a[3])
               \/ CBEntitySetFloat(a[1], a[2], a[3])
               \/ CBEntitySetBool(a[1], a[2], a[3]) )
               => SetterEffect(a[1], a[2], a[3], NullProperty(a[1], a[2], a[3]))
          /\ ( Len(a) = 4 /\ CBEntitySetVector(a[1], a[2], a[3], a[4]) )
               => SetterEffect(a[1], a[2], a[3],
                               NullProperty(a[1], a[2], a[3]) \/ a[4] = NULL) ]_vars

\* a networked field of the second entity was set through the vector setter
\* after a plain field and an unknown field had been looked up
C24_Witness ==
    /\ boundaryCall.op = "CB_EntitySetVector"
    /\ boundaryCall.writes = { Entity2Addr + 52 }
    /\ boundaryCall.notified = << [ entity |-> Entity2Addr, offset |-> 52 ] >>
    /\ CombinedHash(CCSPlayerPawn, m_iTeamNum) \in DOMAIN s_cache
    /\ s_cache[CombinedHash(CCSPlayerPawn, m_iTeamNum)] = SchemaKey(200, FALSE)
    /\ CombinedHash(CCSPlayerPawn, m_pEntity) \in DOMAIN s_cache
    /\ s_cache[CombinedHash(CCSPlayerPawn, m_pEntity)] = NoSchemaKey

(***************************************************************************)
(* Further properties of the scanner (SpecScan)                            *)
(***************************************************************************)
\* the parser reads the token as a wildcard: the wildcard forms, and the
\* upper-case token 2A
ReadAsWildcard(t) == t.kind = "wild" \/ ( t.val = 42 /\ t.upper )

\* zero-based offsets of the windows of buf that agree with toks at every
\* token read as a byte
WindowMatches(buf, toks) ==
    { o \in 0..(Len(buf) - Len(toks)) :
        \A k \in 1..Len(toks) : ~ReadAsWildcard(toks[k]) => buf[o + k] = toks[k].val }

TokenlessPatterns == { << >>, << " " >>, << " ", " " >> }

InitWindow ==
    /\ loaded \in { << ExeObject, ServerObject(buf, NoExports) >> : buf \in Buffers }
    /\ modules = [ id \in ModuleIds |-> NewModule ]
    /\ scanCall \in
          { [ NoScan EXCEPT !.tokens = toks, !.arg = PatternText(toks) ] :
              toks \in Patterns }
          \cup { [ NoScan EXCEPT !.arg = text ] : text \in TokenlessPatterns }
          \cup { NoScan }
    /\ g_gameConfig = NewGameConfig
    /\ resolveHist = EmptyMap
    /\ offsetCall = NoOffsetCall
    /\ BridgeUnloaded
    /\ DetoursIdle
    /\ SchemaIdle
    /\ PluginIdle

SpecWindow == InitWindow /\ [][NextScan]_vars

\* C26: Module::FindSignature visits only window starts in
\* [base, base+size-patternLength] and reads only bytes in [base, base+size);
\* with a pattern longer than the module it returns null and reads nothing;
\* with a null pattern, a pattern without tokens or an uninitialized module
\* it returns null.
C26_ScanStaysInsideModule ==
    scanCall.done =>
        /\ scanCall.windows \subseteq
              scanCall.base..(scanCall.base + scanCall.size - Len(scanCall.tokens))
        /\ scanCall.reads \subseteq scanCall.base..(scanCall.base + scanCall.size - 1)
        /\ Len(scanCall.tokens) > scanCall.size =>
              scanCall.ret = NULL /\ scanCall.reads = {}
        /\ ( scanCall.arg = NullStr \/ scanCall.arg \in TokenlessPatterns
             \/ scanCall.base = NULL ) =>
              scanCall.ret = NULL /\ scanCall.reads = {} /\ scanCall.windows = {}

\* a two-token pattern was compared at both windows of a three-byte module,
\* the last byte of the module included, and not found
C26_Witness ==
    /\ scanCall.done /\ scanCall.base # NULL
    /\ scanCall.size = 3 /\ Len(scanCall.tokens) = 2
    /\ scanCall.windows = { scanCall.base, scanCall.base + 1 }
    /\ scanCall.base + 2 \in scanCall.reads
    /\ scanCall.ret = NULL

(***************************************************************************)
(* Symbol entries (SpecResolve)                                            *)
(***************************************************************************)
\* the step is a ResolveSignature(n) call
ResolveCalled(n) ==
    /\ n \in DOMAIN resolveHist'
    /\ resolveHist'[n].calls = HistOf(n).calls + 1

\* the gamedata entry of n carries a symbol name, marked by '@'
IsSymbolEntry(n) ==
    /\ n \in DOMAIN g_gameConfig.m_signatures
    /\ g_gameConfig.m_signatures[n] # << >>
    /\ g_gameConfig.m_signatures[n][1] = "@"

\* the address the export table of the object owning n's module gives the
\* symbol, the address the process-wide namespace gives it (the first global
\* object in load order that exports it), or null
ExportedAddress(n) ==
    LET sym == Tail(g_gameConfig.m_signatures[n])
        owner == IF n \in DOMAIN g_gameConfig.m_libraries
                    /\ g_gameConfig.m_libraries[n] \in ModuleIds
                 THEN modules[g_gameConfig.m_libraries[n]].m_dlHandle
                 ELSE NULL
        exporting == { i \in 1..Len(loaded) :
                         loaded[i].global /\ sym \in DOMAIN loaded[i].exports }
    IN IF owner # NULL /\ sym \in DOMAIN loaded[owner].exports
       THEN loaded[owner].exports[sym]
       ELSE IF exporting # {} THEN loaded[Min(exporting)].exports[sym]
       ELSE NULL

\* what a ResolveSignature(n) call on a symbol entry owes: no scan; from the
\* cache when the name is cached; otherwise the exported address, cached
SymbolResolved(n) ==
    /\ resolveHist'[n].scans = HistOf(n).scans
    /\ IF n \in DOMAIN g_gameConfig.m_addressCache
       THEN /\ resolveHist'[n].last = g_gameConfig.m_addressCache[n]
            /\ resolveHist'[n].symbols = HistOf(n).symbols
       ELSE /\ resolveHist'[n].last = ExportedAddress(n)
            /\ n \in DOMAIN g_gameConfig'.m_addressCache
            /\ g_gameConfig'.m_addressCache[n] = resolveHist'[n].last

\* the module owning n is one of the well-known modules and is initialized
OwnerInitialized(n) ==
    /\ n \in DOMAIN g_gameConfig.m_libraries
    /\ g_gameConfig.m_libraries[n] \in ModuleIds
    /\ IsInitialized(modules[g_gameConfig.m_libraries[n]])

OffsetNames == { "NoLinux", "Foo", "Absent" }

NextOffset ==
    \/ MapLibrary(ScenarioServer)
    \/ ModuleInitialize("server")
    \/ \E file \in GameDataFiles : GameConfigInit(file)
    \/ \E name \in OffsetNames : ResolveSignature(name)
    \/ \E name \in OffsetNames : GetOffset(name)

SpecOffset == InitConfig /\ [][NextOffset]_vars

\* C28: a GetOffset(name) call returns the offset the configuration holds
\* for the name, or -1 when it holds none, and leaves the signature, library
\* and offset tables and the address cache as they were; ResolveSignature
\* calls do not change the offset table, so the answer does not depend on
\* them.
C28_GetOffsetReadsTable ==
    [][ /\ offsetCall' # offsetCall =>
            /\ offsetCall'.ret =
                 IF offsetCall'.name \in DOMAIN g_gameConfig.m_offsets
                 THEN g_gameConfig.m_offsets[offsetCall'.name]
                 ELSE -1
            /\ g_gameConfig' = g_gameConfig
        /\ resolveHist' # resolveHist =>
            g_gameConfig'.m_offsets = g_gameConfig.m_offsets ]_vars

\* NoLinux was answered with its configured offset after ResolveSignature
\* calls had filled the cache, one of them for NoLinux itself
C28_Witness ==
    /\ offsetCall.made /\ offsetCall.name = "NoLinux"
    /\ offsetCall.ret = GameData1.items["NoLinux"].offsets[1].linux[1].val
    /\ { "NoLinux", "Foo" } \subseteq DOMAIN g_gameConfig.m_addressCache
    /\ g_gameConfig.m_addressCache["Foo"] # NULL

(***************************************************************************)
(* SpecReplace: the detours installed, re-installed and removed as in      *)
(* SpecDetour, the Go bridge loaded at some point, and the redirected      *)
(* functions called by the engine with null, empty, quoted and plain       *)
(* arguments while they are redirected.                                    *)
(***************************************************************************)
QuotedEmpty == << "\"", "\"" >>

HostSayArgs ==
    { << NULL, 2, hello >>, << EntityAddr, 1, hello >>, << EntityAddr, 2, NullStr >>,
      << EntityAddr, 2, << >> >>, << EntityAddr, 2, QuotedEmpty >>,
      << EntityAddr, 2, hello >> }

TakeDamageArgs ==
    { << NULL, BufAddr >>, << EntityAddr, NULL >>, << EntityAddr, BufAddr >> }

\* the funchook outcomes, gs_pNetworkMessages being unset
ReplaceEnvs == { env \in HookEnvs : env.netMessages = "none" }

NextReplace ==
    \/ ModuleInitialize("server")
    \/ GameConfigInit(HookGameData)
    \/ \E env \in ReplaceEnvs : ChatManagerInitialize(env)
    \/ ChatManagerShutdown
    \/ \E env \in ReplaceEnvs : GameFuncInitDamageHook(env)
    \/ GameFuncShutdownDamageHook
    \/ GoBridgeInit(CompleteGoFile, GS_OK)
    \/ \E a \in HostSayArgs, goResult \in BOOLEAN :
          DetourHostSay(a[1], a[2], a[3], goResult)
    \/ \E a \in TakeDamageArgs, result \in EventResults :
          DetourTakeDamageOld(a[1], a[2], result)

SpecReplace == InitDetour /\ [][NextReplace]_vars

(***************************************************************************)
(* C29: every call of an installed detour replacement runs the original    *)
(* function exactly once, except when the Go runtime reports the call as   *)
(* handled (chat: GoBridge_OnChatMessage returned true; damage: result >=  *)
(* GS_EVENT_HANDLED), when it runs it zero times; with the bridge not      *)
(* initialized or with null or empty arguments it runs it exactly once.    *)
(***************************************************************************)
C29_OriginalOnceUnlessHandled ==
    pluginCall.op \in { "DetourHostSay", "DetourTakeDamageOld" } =>
        /\ pluginCall.detour.original = IF pluginCall.detour.handled THEN 0 ELSE 1
        /\ ( ~pluginCall.detour.forwarded
             \/ ( pluginCall.op = "DetourHostSay" /\ ~pluginCall.detour.ready ) )
             => pluginCall.detour.original = 1

(***************************************************************************)
(* SpecModule: Module::Initialize on the well-known modules while the host *)
(* maps, in any order, a libserver.so whose loadable segments are listed   *)
(* out of address order, a second copy of it, a libserver.so whose only    *)
(* loadable segment is empty, a library lying in a directory named         *)
(* libserver.so, and libengine2.so.                                        *)
(***************************************************************************)
SplitServer ==
    [ dlpi_name |-> << "/", "g", "/" >> \o LibServerSo, dlpi_addr |-> 4096,
      phdr |-> << [ p_type |-> "PT_LOAD", p_vaddr |-> 4, p_memsz |-> 2 ],
                  [ p_type |-> "PT_DYNAMIC", p_vaddr |-> 0, p_memsz |-> 9 ],
                  [ p_type |-> "PT_LOAD", p_vaddr |-> 0, p_memsz |-> 2 ] >>,
      bytes |-> << 85, 72, 0, 0, 137, 229 >>, exports |-> NoExports, global |-> TRUE ]

ServerCopy ==
    [ dlpi_name |-> << "/", "z", "/" >> \o LibServerSo, dlpi_addr |-> 12288,
      phdr |-> << [ p_type |-> "PT_LOAD", p_vaddr |-> 0, p_memsz |-> 1 ] >>,
      bytes |-> << 85 >>, exports |-> NoExports, global |-> TRUE ]

EmptyServer ==
    [ dlpi_name |-> << "/", "h", "/" >> \o LibServerSo, dlpi_addr |-> 24576,
      phdr |-> << [ p_type |-> "PT_LOAD", p_vaddr |-> 0, p_memsz |-> 0 ] >>,
      bytes |-> << >>, exports |-> NoExports, global |-> TRUE ]

InServerDirectory ==
    [ dlpi_name |-> << "/" >> \o LibServerSo \o << "/", "m", ".", "s", "o" >>,
      dlpi_addr |-> 8192,
      phdr |-> << [ p_type |-> "PT_LOAD", p_vaddr |-> 0, p_memsz |-> 2 ] >>,
      bytes |-> << 144, 195 >>, exports |-> NoExports, global |-> TRUE ]

ModuleObjects == { SplitServer, ServerCopy, EmptyServer, InServerDirectory, EngineObject }

NextModule ==
    \/ \E obj \in ModuleObjects : MapLibrary(obj)
    \/ \E id \in ModuleIds : ModuleInitialize(id)

SpecModule == InitConfig /\ [][NextModule]_vars

\* the loadable segments of a mapped binary and the range they span
SegmentsOf(obj) == { i \in 1..Len(obj.phdr) : obj.phdr[i].p_type = "PT_LOAD" }
LowestStart(obj) ==
    Min({ obj.dlpi_addr + obj.phdr[i].p_vaddr : i \in SegmentsOf(obj) })
HighestEnd(obj) ==
    Max({ obj.dlpi_addr + obj.phdr[i].p_vaddr + obj.phdr[i].p_memsz :
            i \in SegmentsOf(obj) })

\* name occurs in text
Contains(text, name) ==
    \E i \in 0..(Len(text) - Len(name)) : SubSeq(text, i + 1, i + Len(name)) = name

\* the part of a path after its last slash
FileName(path) ==
    IF \E i \in 1..Len(path) : path[i] = "/"
    THEN SubSeq(path, Max({ i \in 1..Len(path) : path[i] = "/" }) + 1, Len(path))
    ELSE path

\* Initialize(name) on module m answers found with the range of binary obj
FoundAs(r, obj) ==
    /\ r.ok
    /\ r.m.m_base = LowestStart(obj)
    /\ r.m.m_base + r.m.m_size = HighestEnd(obj)

\* C30 as stated: when some mapped binary whose path contains name has a
\* loadable segment, Initialize(name) answers found with base and size
\* spanning the loadable segments of such a binary; when no mapped binary's
\* path contains name it answers not-found and leaves the Module as it was.
C30_PathContainsName ==
    \A id \in ModuleIds :
        LET r == Module_Initialize(modules[id], ModuleFile(id), loaded)
            named == { i \in 1..Len(loaded) :
                         Contains(loaded[i].dlpi_name, ModuleFile(id)) }
            cands == { i \in named : SegmentsOf(loaded[i]) # {} }
        IN /\ cands # {} => \E i \in cands : FoundAs(r, loaded[i])
           /\ named = {} => ~r.ok /\ r.m = modules[id]

\* C30 amended: Initialize(name) answers found exactly when some mapped
\* binary whose file name (the path after its last slash) contains name has
\* loadable segments spanning a non-empty range, and then with base and
\* size spanning the loadable segments of the first such binary in load
\* order; otherwise it answers not-found and leaves the Module as it was.
C30_FileNameContainsName ==
    \A id \in ModuleIds :
        LET r == Module_Initialize(modules[id], ModuleFile(id), loaded)
            cands == { i \in 1..Len(loaded) :
                         /\ Contains(FileName(loaded[i].dlpi_name), ModuleFile(id))
                         /\ SegmentsOf(loaded[i]) # {}
                         /\ LowestStart(loaded[i]) < HighestEnd(loaded[i]) }
        IN IF cands # {} THEN FoundAs(r, loaded[Min(cands)])
           ELSE ~r.ok /\ r.m = modules[id]

\* modules::server spans the out-of-order segments of the libserver.so in
\* /g, mapped after the empty one, the one in the directory named
\* libserver.so and before the copy; modules::engine was asked for and is
\* still as constructed
C30_Witness ==
    /\ loaded = << ExeObject, EmptyServer, InServerDirectory, SplitServer, ServerCopy >>
    /\ modules["server"].m_base = SplitServer.dlpi_addr
    /\ modules["server"].m_size = Len(SplitServer.bytes)
    /\ modules["server"].m_path = SplitServer.dlpi_name
    /\ modules["engine"] = NewModule

(***************************************************************************)
(* SpecReentry: both detours installed and the Go bridge loaded at some    *)
(* point; the engine calls the redirected functions, and a Go chat or      *)
(* damage handler that is running triggers game logic which calls them     *)
(* again on the same thread before it returns.                             *)
(***************************************************************************)
MaxDepth == 2
MaxInner == 1

QuotedHi == << "\"", "h", "i", "\"" >>

ReentryHostSayArgs ==
    { << NULL, 2, hello >>, << EntityAddr, 2, QuotedEmpty >>,
      << EntityAddr, 2, hello >>, << EntityAddr, 2, QuotedHi >> }

ReentryDamageArgs ==
    { << NULL, BufAddr >>, << EntityAddr, BufAddr >>, << Entity2Addr, BufAddr >> }

\* funchook succeeds at every step and gs_pNetworkMessages is unset
InstallEnv ==
    [ netMessages |-> "none", createOk |-> TRUE, prepareOk |-> TRUE, installOk |-> TRUE ]

\* an activation whose parameters and message live in storage that every
\* activation of the same replacement shares
EnterInvocation_SharedScratch(frames, fn, args, msg) ==
    Append([ i \in 1..Len(frames) |->
               IF frames[i].fn = fn
               THEN [ frames[i] EXCEPT !.args = args, !.msg = msg ]
               ELSE frames[i] ],
           [ fn |-> fn, args |-> args, msg |-> msg, inner |-> << >> ])

\* a replacement is entered: its parameters and its local msg belong to the
\* new activation (msg is a std::string local of DetourHostSay; the damage
\* replacement keeps the values it read from its arguments in locals)
EnterInvocation(frames, fn, args, msg) ==
    Append(frames, [ fn |-> fn, args |-> args, msg |-> msg, inner |-> << >> ])

\* the innermost activation returns: asked says whether the Go runtime was
\* called, answer is what it returned, handled the decision taken from it;
\* the original is called with the activation's own parameters unless handled
ReturnInvocation(stack, asked, answer, handled) ==
    LET n == Len(stack.frames)
        top == stack.frames[n]
        rest == SubSeq(stack.frames, 1, n - 1)
    IN [ frames |->
           IF rest = << >> THEN rest
           ELSE [ rest EXCEPT ![n - 1].inner =
                    Append(@, [ fn |-> top.fn, args |-> top.args, handled |-> handled ]) ],
         last |-> [ made |-> TRUE, fn |-> top.fn, args |-> top.args, msg |-> top.msg,
                    asked |-> asked, answer |-> answer, handled |-> handled,
                    original |-> IF handled THEN << >> ELSE << top.args >>,
                    inner |-> top.inner ] ]

\* the engine at top level, or game logic run by the Go handler of the
\* innermost activation, may call a redirected function
CanEnter ==
    /\ Len(detourStack.frames) < MaxDepth
    /\ detourStack.frames # << >> =>
         Len(detourStack.frames[Len(detourStack.frames)].inner) < MaxInner

\* a replacement ran as far as its return or as far as the Go handler
Entered(r, stack) ==
    /\ bridge' = r.bridge
    /\ goProc' = r.go
    /\ goCalls' = goCalls \cup r.called
    /\ handshake' = AfterCalls(handshake, r.go, r.called)
    /\ detourStack' = stack
    /\ UNCHANGED << procVars, scanVars, configVars, initAttempt, playerNotices,
                    boundaryCall,
                    chatManager, damageHook, funchooks, detourHist,
                    gameFunctions, gameFuncCall, schemaVars, pluginVars >>

\* DetourHostSay up to its return, or up to the call of the Go chat handler
EnterHostSay(pController, argc, rawMsg) ==
    /\ HostSayName \in DOMAIN g_gameConfig.m_addressCache
    /\ TextAt(funchooks, g_gameConfig.m_addressCache[HostSayName]) # << >>
    /\ CanEnter
    /\ \E d \in { HostSayReplacement(bridge, goProc, pController, argc, rawMsg, FALSE) } :
       \E f \in { EnterInvocation(detourStack.frames, "HostSay",
                                  << pController, argc, rawMsg >>,
                                  IF d.forwarded THEN StripQuotes(rawMsg) ELSE << >>) } :
          Entered(d.r,
                  IF d.r.called = {}
                  THEN ReturnInvocation([ detourStack EXCEPT !.frames = f ],
                                        FALSE, << >>, FALSE)
                  ELSE [ detourStack EXCEPT !.frames = f ])

\* the Go chat handler of the innermost activation returns, and DetourHostSay
\* runs to its end
ReturnHostSay(goResult) ==
    /\ detourStack.frames # << >>
    /\ detourStack.frames[Len(detourStack.frames)].fn = "HostSay"
    /\ detourStack' = ReturnInvocation(detourStack, TRUE, << goResult >>, goResult)
    /\ UNCHANGED << procVars, scanVars, configVars, bridgeVars, chatManager,
                    damageHook, funchooks, detourHist, gameFunctions, gameFuncCall,
                    schemaVars, pluginVars >>

\* DetourTakeDamageOld up to its return, or up to the call of the damage
\* forwarder
EnterTakeDamageOld(entity, damageInfo) ==
    /\ TakeDamageOldName \in DOMAIN g_gameConfig.m_addressCache
    /\ TextAt(funchooks, g_gameConfig.m_addressCache[TakeDamageOldName]) # << >>
    /\ CanEnter
    /\ \E d \in { TakeDamageOldReplacement(entity, damageInfo, GS_EVENT_CONTINUE) } :
       \E f \in { EnterInvocation(detourStack.frames, "TakeDamageOld",
                                  << entity, damageInfo >>,
                                  IF d.forwarded THEN << entity, damageInfo >>
                                  ELSE << >>) } :
          Entered([ bridge |-> bridge, go |-> goProc, called |-> {} ],
                  IF d.forwarded
                  THEN [ detourStack EXCEPT !.frames = f ]
                  ELSE ReturnInvocation([ detourStack EXCEPT !.frames = f ],
                                        FALSE, << >>, FALSE))

\* the damage forwarder of the innermost activation returns, and
\* DetourTakeDamageOld runs to its end
ReturnTakeDamageOld(result) ==
    /\ detourStack.frames # << >>
    /\ detourStack.frames[Len(detourStack.frames)].fn = "TakeDamageOld"
    /\ \E a \in { detourStack.frames[Len(detourStack.frames)].args } :
       \E d \in { TakeDamageOldReplacement(a[1], a[2], result) } :
          detourStack' = ReturnInvocation(detourStack, TRUE, << result >>, d.handled)
    /\ UNCHANGED << procVars, scanVars, configVars, bridgeVars, chatManager,
                    damageHook, funchooks, detourHist, gameFunctions, gameFuncCall,
                    schemaVars, pluginVars >>

NextReentry ==
    \/ ModuleInitialize("server")
    \/ GameConfigInit(HookGameData)
    \/ ChatManagerInitialize(InstallEnv)
    \/ GameFuncInitDamageHook(InstallEnv)
    \/ GoBridgeInit(CompleteGoFile, GS_OK)
    \/ \E a \in ReentryHostSayArgs : EnterHostSay(a[1], a[2], a[3])
    \/ \E goResult \in BOOLEAN : ReturnHostSay(goResult)
    \/ \E a \in ReentryDamageArgs : EnterTakeDamageOld(a[1], a[2])
    \/ \E result \in EventResults : ReturnTakeDamageOld(result)

SpecReentry == InitDetour /\ [][NextReentry]_vars

\* what an invocation that is not nested and has nothing nested in it does
\* with the same arguments and the same answer of the Go runtime
Alone(l) ==
    IF l.fn = "HostSay"
    THEN LET d == HostSayReplacement(bridge, goProc, l.args[1], l.args[2], l.args[3],
                                     l.answer = << TRUE >>)
         IN [ msg |-> IF d.forwarded THEN StripQuotes(l.args[3]) ELSE << >>,
              asked |-> d.r.called # {},
              handled |-> d.r.ret,
              original |-> IF d.callsOriginal THEN << l.args >> ELSE << >> ]
    ELSE LET d == TakeDamageOldReplacement(l.args[1], l.args[2],
                     IF l.answer = << >> THEN GS_EVENT_CONTINUE ELSE l.answer[1])
         IN [ msg |-> IF d.forwarded THEN << l.args[1], l.args[2] >> ELSE << >>,
              asked |-> d.forwarded,
              handled |-> d.handled,
              original |-> IF d.callsOriginal THEN << l.args >> ELSE << >> ]

\* C31: a detour replacement that returns, whatever invocations of the
\* replacements were nested inside it while its Go handler ran, has used the
\* message of its own arguments, has taken the decision of its own handler's
\* answer, and has called the original with its own arguments exactly when
\* that decision was not "handled": the same as an invocation with nothing
\* nested in it.
C31_OuterUnaffectedByInner ==
    [][ ( detourStack' # detourStack
          /\ Len(detourStack'.frames) <= Len(detourStack.frames) ) =>
            LET l == detourStack'.last
                a == Alone(l)
            IN /\ l.made
               /\ l.msg = a.msg
               /\ l.asked = a.asked
               /\ l.handled = a.handled
               /\ l.original = a.original ]_vars

\* an outer Host_Say call with message hello returned unhandled and called
\* the original with its own arguments, after a nested Host_Say call with
\* the quoted message "hi" had been handled inside it
C31_Witness ==
    /\ detourStack.frames = << >>
    /\ detourStack.last.made
    /\ detourStack.last.fn = "HostSay"
    /\ detourStack.last.args = << EntityAddr, 2, hello >>
    /\ detourStack.last.msg = hello
    /\ detourStack.last.asked /\ ~detourStack.last.handled
    /\ detourStack.last.original = << << EntityAddr, 2, hello >> >>
    /\ detourStack.last.inner =
         << [ fn |-> "HostSay", args |-> << EntityAddr, 2, QuotedHi >>, handled |-> TRUE ] >>

(***************************************************************************)
(* SpecParse: Module::ParseSignature applied to the text of token          *)
(* sequences: every byte value 0x00-0xFF in upper and in lower case as a   *)
(* pattern of its own, and every pattern of up to MaxPatLen tokens over    *)
(* 0x2A, 0xE5 and the wildcard notations.                                  *)
(***************************************************************************)
AllByteTokens ==
    { [ kind |-> "byte", val |-> b, upper |-> u, form |-> << >> ] :
        b \in 0..255, u \in BOOLEAN } \
    { [ kind |-> "byte", val |-> b, upper |-> FALSE, form |-> << >> ] :
        b \in { x \in 0..255 : ~HasLetter(x) } }

ParsePatterns == Patterns \cup { << t >> : t \in AllByteTokens }

InitParse ==
    /\ loaded = << ExeObject >>
    /\ modules = [ id \in ModuleIds |-> NewModule ]
    /\ scanCall \in { [ NoScan EXCEPT !.tokens = toks, !.arg = PatternText(toks) ] :
                        toks \in ParsePatterns }
    /\ g_gameConfig = NewGameConfig
    /\ resolveHist = EmptyMap
    /\ offsetCall = NoOffsetCall
    /\ BridgeUnloaded
    /\ DetoursIdle
    /\ SchemaIdle
    /\ PluginIdle

\* Module::ParseSignature(scanCall.arg), a static member: no module is needed
ModuleParseSignature ==
    /\ scanCall' = [ scanCall EXCEPT !.parsed = << ParseSignature(scanCall.arg) >> ]
    /\ UNCHANGED notScan

NextParse == ModuleParseSignature

SpecParse == InitParse /\ [][NextParse]_vars

\* the token sequence in the parser's own form: the byte value at a byte
\* position, the marker -1 at a wildcard position
InternalForm(toks) ==
    [ i \in 1..Len(toks) |-> IF toks[i].kind = "wild" THEN -1 ELSE toks[i].val ]

ParsedBack == scanCall.parsed = << InternalForm(scanCall.tokens) >>

\* C32 as stated: for every sequence of byte values 0x00-0xFF and wildcards,
\* parsing its text gives a sequence of the same length with each byte value
\* at its position and the wildcard marker at exactly the wildcard positions.
C32_EveryByteValue ==
    scanCall.parsed # << >> => ParsedBack

\* C32 amended: the same for every sequence in which the byte 0x2A is not
\* written as the upper-case token "2A", which the parser reads as a
\* wildcard; written "2a" it is read back as the byte.
C32_ParseInvertsText ==
    ( scanCall.parsed # << >> /\ ~HasUpper2A(scanCall.tokens) ) => ParsedBack

\* the text "2a \x2A E5" was parsed into the byte 0x2A, the marker and 0xE5
C32_Witness ==
    /\ scanCall.arg = << "2", "a", " ", "\\", "x", "2", "A", " ", "E", "5" >>
    /\ scanCall.parsed = << << 42, -1, 229 >> >>
    /\ ~HasUpper2A(scanCall.tokens)

(***************************************************************************)
(* SpecForward: GoBridge_Init on every kind of library file, with success  *)
(* and failure of GoStrike_Init, GoBridge_Shutdown, and every forwarder of *)
(* the bridge, in any order.                                               *)
(***************************************************************************)
\* no file, a complete library, one without the optional exports, one
\* that lacks a required export, and one of another ABI version
ForwardFiles ==
    { NoFile, CompleteGoFile,
      [ exists |-> TRUE,
        image |-> [ exports |-> RequiredSet, abi |-> GOSTRIKE_ABI_VERSION ] ],
      [ exists |-> TRUE,
        image |-> [ exports |-> GoSymbols \ { "GoStrike_OnTick" },
                    abi |-> GOSTRIKE_ABI_VERSION ] ],
      [ exists |-> TRUE,
        image |-> [ exports |-> GoSymbols, abi |-> GOSTRIKE_ABI_VERSION + 1 ] ] }

NextForward ==
    \/ \E file \in ForwardFiles, initErr \in InitErrs : GoBridgeInit(file, initErr)
    \/ GoBridgeShutdown
    \/ GoBridgeOnTick
    \/ GoBridgeOnPlayerConnect(PlayerIn(0))
    \/ GoBridgeOnPlayerDisconnect(0)
    \/ GoBridgeFireEvent(round_start, FALSE, GS_EVENT_CONTINUE)
    \/ GoBridgeOnMapChange(de_dust2)
    \/ GoBridgeOnEntityCreated
    \/ GoBridgeOnEntitySpawned
    \/ GoBridgeOnEntityDeleted
    \/ GoBridgeOnChatMessage(hello, FALSE)

SpecForward == InitBridge /\ [][NextForward]_vars

\* the exports the forwarders would invoke if they were called with the
\* statics b and the loader state go, over all their arguments
ForwarderCallsOn(b, go) ==
    UNION ( { GoBridge_OnTick(b, go).called,
              GoBridge_OnEntityCreated(b, go).called,
              GoBridge_OnEntitySpawned(b, go).called,
              GoBridge_OnEntityDeleted(b, go).called,
              IF GoBridge_GetLastError(b, go, hello) = NullStr THEN {}
              ELSE { "GoStrike_GetLastError" } }
            \cup { GoBridge_OnPlayerConnect(b, go, player).called : player \in Players }
            \cup { GoBridge_OnPlayerDisconnect(b, go, slot).called : slot \in PlayerSlots }
            \cup { GoBridge_FireEvent(b, go, name, isPost, GS_EVENT_CONTINUE).called :
                     name \in EventNames, isPost \in BOOLEAN }
            \cup { GoBridge_OnMapChange(b, go, mapName).called : mapName \in MapNames }
            \cup { GoBridge_OnChatMessage(b, go, message, FALSE).called :
                     message \in Messages } )

ForwarderCalls == ForwarderCallsOn(bridge, goProc)

\* C33: in every reachable state a forwarder invokes an export only when
\* the bridge is initialized, and an initialized bridge has a non-null
\* library handle, every required entry-point pointer set and the library
\* mapped, every export a forwarder would invoke being one of that library.
C33_ForwardOnlyWhileLoaded ==
    /\ ForwarderCalls # {} => bridge.g_initialized
    /\ bridge.g_initialized =>
         /\ bridge.g_goLib # NULL
         /\ \A s \in RequiredSet : bridge.pfn[s]
         /\ goProc.refs > 0
         /\ ForwarderCalls \subseteq goProc.image.exports
         /\ RequiredSet \ { "GoStrike_Init", "GoStrike_Shutdown",
                            "GoStrike_ClearLastError", "GoStrike_GetABIVersion",
                            "GoStrike_RegisterCallbacks" } \subseteq ForwarderCalls

\* the bridge is initialized with a library that has no entity-lifecycle
\* exports, the version handshake done, and the chat forwarder has invoked
\* its export
C33_Witness ==
    /\ bridge.g_initialized
    /\ "GoStrike_Shutdown" \notin goCalls
    /\ handshake.verified
    /\ ~bridge.pfn["GoStrike_OnEntityCreated"]
    /\ boundaryCall.op = "GoBridge_OnChatMessage"
    /\ boundaryCall.called = { "GoStrike_OnChatMessage" }
    /\ bridge.g_playerCache[0] = -1
    /\ ForwarderCalls # {}

\* every forwarder, called with the statics b, returns its neutral value
\* and leaves the statics alone (the map forwarder apart, which stores the
\* map name whether or not the bridge is initialized)
ForwardersIdle(b, go) ==
    /\ ForwarderCallsOn(b, go) = {}
    /\ GoBridge_OnTick(b, go).bridge = b
    /\ \A player \in Players : GoBridge_OnPlayerConnect(b, go, player).bridge = b
    /\ \A slot \in PlayerSlots : GoBridge_OnPlayerDisconnect(b, go, slot).bridge = b
    /\ \A name \in EventNames, isPost \in BOOLEAN :
          GoBridge_FireEvent(b, go, name, isPost, GS_EVENT_HANDLED).ret = GS_EVENT_CONTINUE
    /\ \A message \in Messages : ~GoBridge_OnChatMessage(b, go, message, TRUE).ret

\* C34: GoBridge_Shutdown on an uninitialized bridge changes nothing and
\* calls nothing; on an initialized bridge it calls GoStrike_Shutdown once
\* and unloads the library, leaves the handle null, the flag false and all
\* fifteen entry-point pointers (required and optional) cleared; every
\* forwarder is then a no-op with its neutral value, and a GoBridge_Init
\* that follows runs the whole load sequence again.
C34_ShutdownClearsEverything ==
    LET r == GoBridge_Shutdown(bridge, goProc)
        again == GoBridge_Init(r.bridge, r.go, CompleteGoFile, GS_OK)
    IN IF ~bridge.g_initialized
       THEN r.bridge = bridge /\ r.go = goProc /\ r.called = {}
       ELSE /\ r.called = { "GoStrike_Shutdown" }
            /\ r.go.refs = goProc.refs - 1
            /\ r.bridge.g_goLib = NULL
            /\ ~r.bridge.g_initialized
            /\ \A s \in GoSymbols : ~r.bridge.pfn[s]
            /\ ForwardersIdle(r.bridge, r.go)
            /\ again.ret
            /\ again.called = { "GoStrike_GetABIVersion", "GoStrike_Init" }
            /\ again.bridge.g_initialized

\* C35: GoBridge_Init on an initialized bridge returns true, opens no
\* library, invokes neither GoStrike_GetABIVersion nor GoStrike_Init nor
\* any other export, and leaves the player cache and every other static of
\* the bridge as they were, whatever file is on disk.
C35_InitOnInitializedIsNoOp ==
    bridge.g_initialized =>
        \A file \in ForwardFiles, initErr \in InitErrs :
            LET r == GoBridge_Init(bridge, goProc, file, initErr)
            IN /\ r.ret
               /\ r.called = {}
               /\ r.go = goProc
               /\ r.bridge = bridge

\* GoBridge_Init ran on the initialized bridge and returned true; the
\* library is still open once and slot 0, connected before, is still cached
C35_Witness ==
    /\ initAttempt.made /\ initAttempt.already /\ initAttempt.ret
    /\ goCalls = {}
    /\ bridge.g_initialized
    /\ goProc.refs = 1
    /\ bridge.g_playerCache[0] = 0
    /\ boundaryCall.op = "GoBridge_OnPlayerConnect"

(***************************************************************************)
(* SpecPlayers: the bridge initialized, shut down and initialized again;   *)
(* connect and disconnect notifications for slots at and beyond both ends  *)
(* of the player cache; and the Go runtime reading the cache through the   *)
(* callbacks get_player, get_player_count and get_all_players.             *)
(***************************************************************************)
\* the Go runtime called a player callback of the table: nothing changes
PlayerCallback(op, args, ret, out) ==
    /\ goProc.rt.callbacks
    /\ boundaryCall' =
         [ op |-> op, nullArg |-> FALSE, called |-> {}, changed |-> FALSE,
           ret |-> ret, reads |-> {}, writes |-> {}, args |-> args, out |-> out ]
    /\ UNCHANGED << bridge, goProc, initAttempt, playerNotices, goCalls, handshake,
                    notBridge >>

CBGetPlayer(slot) ==
    PlayerCallback("CB_GetPlayer", << slot >>, CB_GetPlayer(bridge, slot), << >>)

CBGetPlayerCount ==
    PlayerCallback("CB_GetPlayerCount", << >>, CB_GetPlayerCount(bridge), << >>)

CBGetAllPlayers(outSlots) ==
    \E r \in { CB_GetAllPlayers(bridge, outSlots) } :
        PlayerCallback("CB_GetAllPlayers", << outSlots >>, r.ret, r.out)

NextPlayers ==
    \/ GoBridgeInit(CompleteGoFile, GS_OK)
    \/ GoBridgeRegisterCallbacks
    \/ GoBridgeShutdown
    \/ \E player \in Players : GoBridgeOnPlayerConnect(player)
    \/ \E slot \in PlayerSlots : GoBridgeOnPlayerDisconnect(slot)
    \/ \E slot \in PlayerSlots : CBGetPlayer(slot)
    \/ CBGetPlayerCount
    \/ \E outSlots \in { NULL, BufAddr } : CBGetAllPlayers(outSlots)

SpecPlayers == InitBridge /\ [][NextPlayers]_vars

CacheRange == 0..(PlayerCacheSize - 1)

\* a sequence of slots in ascending order
Ascending(seq) == \A i \in 1..(Len(seq) - 1) : seq[i] < seq[i + 1]

\* C36: on an initialized bridge, after any connect and disconnect
\* notifications, get_player(s) is non-null exactly for the slots 0..63
\* whose most recent notification was a connect; get_player_count is their
\* number; get_all_players writes exactly those slots in ascending order,
\* at most 64 of them, and returns the same number; and a notification for
\* a slot outside 0..63 is forwarded without touching the cache, get_player
\* of such a slot being null.
C36_CacheFollowsNotifications ==
    bridge.g_initialized =>
        LET all == CB_GetAllPlayers(bridge, BufAddr)
        IN /\ \A s \in -1..PlayerCacheSize :
                 ( CB_GetPlayer(bridge, s) # NULL ) <=>
                     ( s \in CacheRange /\ s \in playerNotices )
           /\ CB_GetPlayerCount(bridge) = Cardinality(playerNotices)
           /\ all.ret = Cardinality(playerNotices)
           /\ Len(all.out) = all.ret /\ all.ret <= PlayerCacheSize
           /\ { all.out[i] : i \in 1..Len(all.out) } = playerNotices
           /\ Ascending(all.out)
           /\ \A s \in { -1, PlayerCacheSize } :
                 LET c == GoBridge_OnPlayerConnect(bridge, goProc, PlayerIn(s))
                     d == GoBridge_OnPlayerDisconnect(bridge, goProc, s)
                 IN /\ c.bridge = bridge /\ c.called = { "GoStrike_OnPlayerConnect" }
                    /\ d.bridge = bridge /\ d.called = { "GoStrike_OnPlayerDisconnect" }

\* slots 0 and 63 were last told connected, slot 1 was not, and
\* get_all_players wrote 0 and 63 in that order and returned 2
C36_Witness ==
    /\ bridge.g_initialized
    /\ playerNotices = { 0, PlayerCacheSize - 1 }
    /\ boundaryCall.op = "CB_GetAllPlayers"
    /\ boundaryCall.ret = 2
    /\ boundaryCall.out = << 0, PlayerCacheSize - 1 >>
    /\ goProc.rt.callbacks
    /\ bridge.g_playerCache[1] = -1

(***************************************************************************)
(* SpecGameFunc: the game-function wrappers called for a player slot,      *)
(* before and after GameFunctions_Initialize, under gamedata files that    *)
(* give all, some or none of the vtable offsets and hosts whose slot holds *)
(* no entity, a non-player entity, or a controller with or without a pawn  *)
(* and item services.                                                      *)
(***************************************************************************)
OffsetEntry(val) ==
    [ signatures |-> << >>, offsets |-> << [ linux |-> << [ isInt |-> TRUE, val |-> val ] >> ] >> ]

\* gamedata.json with the five vtable offsets
GameFuncData ==
    [ readable |-> TRUE,
      items |->
        [ k \in { RespawnOffsetName, ChangeTeamOffsetName, TeleportOffsetName,
                  CommitSuicideOffsetName, RemoveWeaponsOffsetName } |->
            CASE k = RespawnOffsetName -> OffsetEntry(274)
              [] k = ChangeTeamOffsetName -> OffsetEntry(103)
              [] k = TeleportOffsetName -> OffsetEntry(0)
              [] k = CommitSuicideOffsetName -> OffsetEntry(404)
              [] k = RemoveWeaponsOffsetName -> OffsetEntry(24) ] ]

\* gamedata.json with one offset and one that was written as negative
PartialGameFuncData ==
    [ readable |-> TRUE,
      items |->
        [ k \in { RespawnOffsetName, TeleportOffsetName } |->
            IF k = RespawnOffsetName THEN OffsetEntry(275) ELSE OffsetEntry(-2) ] ]

GameFuncFiles == { GameFuncData, PartialGameFuncData }

weapon_ak47 == << "w","e","a","p","o","n","_","a","k","4","7" >>

PawnAddr == EntityAddr + 512
ServicesAddr == EntityAddr + 1024
\* the handle (3 << 15) | 70: entry index 70, serial 3
PawnHandle == [ hi |-> 1, lo |-> 32768 + 70 ]

Slot(entity, classname, handle, pawn, services) ==
    [ entity |-> entity, classname |-> classname, m_hPlayerPawn |-> handle,
      byIndex |-> [ i \in { 70 } |-> pawn ], m_pItemServices |-> services ]

SlotHosts ==
    { Slot(NULL, NullStr, InvalidHandle, NULL, NULL),
      Slot(EntityAddr, NullStr, InvalidHandle, NULL, NULL),
      Slot(EntityAddr, weapon_ak47, PawnHandle, PawnAddr, ServicesAddr),
      Slot(EntityAddr, cs_player_controller, InvalidHandle, NULL, NULL),
      Slot(EntityAddr, cs_player_controller, PawnHandle, NULL, NULL),
      Slot(EntityAddr, player_controller, PawnHandle, PawnAddr, NULL),
      Slot(EntityAddr, cs_player_controller, PawnHandle, PawnAddr, ServicesAddr) }

CCSPlayerControllerInfo ==
    [ m_pFields |-> << Field(m_hPlayerPawn, 2060, << Meta(MNetworkEnable) >>) >>,
      m_pBaseClasses |-> << >> ]
CBasePlayerControllerInfo ==
    [ m_pFields |-> << Field(m_hPawn, 1540, << Meta(MNetworkEnable) >>) >>,
      m_pBaseClasses |-> << >> ]
CBasePlayerPawnInfo ==
    [ m_pFields |-> << Field(m_pItemServices, 2848, << >>) >>, m_pBaseClasses |-> << >> ]
CCSPlayerPawnBaseInfo ==
    [ m_pFields |-> << >>, m_pBaseClasses |-> << Base(<< CBasePlayerPawnInfo >>) >> ]

\* the schema systems of the host: all three classes; and one that declares
\* the pawn handle only in the base controller class and no item services
PlayerSchemas ==
    { [ present |-> TRUE,
        scopes |-> MapPut(EmptyMap, LibServerSo,
                     MapPut(MapPut(MapPut(EmptyMap,
                       CCSPlayerController, CCSPlayerControllerInfo),
                       CBasePlayerController, CBasePlayerControllerInfo),
                       CCSPlayerPawnBase, CCSPlayerPawnBaseInfo)),
        global |-> << >> ],
      [ present |-> TRUE,
        scopes |-> MapPut(EmptyMap, LibServerSo,
                     MapPut(EmptyMap, CBasePlayerController, CBasePlayerControllerInfo)),
        global |-> << >> ] }

\* GameFunctions_Initialize() called on its own
GameFunctionsInitialize ==
    /\ \E g \in { GameFunctions_Initialize(gameFunctions, g_gameConfig, modules, loaded) } :
          /\ gameFunctions' = g.gf
          /\ g_gameConfig' = g.cfg
    /\ UNCHANGED << procVars, scanVars, resolveHist, offsetCall, bridgeVars,
                    chatManager, damageHook, funchooks, detourHist, detourStack,
                    gameFuncCall, schemaVars, pluginVars >>

\* a wrapper ran for a slot the host holds as host, with slot index offset
\* in its static, and answered r
WrapperRan(fn, host, offset, r) ==
    /\ gameFuncCall' = [ fn |-> fn, host |-> << host >>, offset |-> offset,
                         calls |-> r.calls ]
    /\ s_cache' = r.cache
    /\ UNCHANGED << procVars, scanVars, configVars, bridgeVars,
                    chatManager, damageHook, funchooks, detourHist, detourStack,
                    gameFunctions, gs_pSchemaSystem, schemaCall, schemaCalls,
                    schemaHist, pluginVars >>

GameFuncRespawn(host) ==
    \E r \in { GameFunc_Respawn(gameFunctions, s_cache, gs_pSchemaSystem, host) } :
       WrapperRan("Respawn", host, gameFunctions.s_offsetRespawn, r)

GameFuncChangeTeam(host, team) ==
    \E r \in { GameFunc_ChangeTeam(gameFunctions, s_cache, gs_pSchemaSystem, host, team) } :
       WrapperRan("ChangeTeam", host, gameFunctions.s_offsetChangeTeam, r)

GameFuncSlay(host) ==
    \E r \in { GameFunc_Slay(gameFunctions, s_cache, gs_pSchemaSystem, host) } :
       WrapperRan("Slay", host, gameFunctions.s_offsetCommitSuicide, r)

GameFuncTeleport(host, pos, angles, velocity) ==
    \E r \in { GameFunc_Teleport(gameFunctions, s_cache, gs_pSchemaSystem, host,
                 pos, angles, velocity) } :
       WrapperRan("Teleport", host, gameFunctions.s_offsetTeleport, r)

GameFuncDropWeapons(host) ==
    \E r \in { GameFunc_DropWeapons(gameFunctions, s_cache, gs_pSchemaSystem, host) } :
       WrapperRan("DropWeapons", host, gameFunctions.s_offsetRemoveWeapons, r)

NextGameFunc ==
    \/ \E file \in GameFuncFiles : GameConfigInit(file)
    \/ \E sys \in PlayerSchemas : AcquireSchemaSystem(sys)
    \/ GameFunctionsInitialize
    \/ \E host \in SlotHosts : GameFuncRespawn(host)
    \/ \E host \in SlotHosts : GameFuncChangeTeam(host, 3)
    \/ \E host \in SlotHosts : GameFuncSlay(host)
    \/ \E host \in SlotHosts : GameFuncTeleport(host, BufAddr, NULL, NULL)
    \/ \E host \in SlotHosts : GameFuncDropWeapons(host)

SpecGameFunc == InitSchema /\ [][NextGameFunc]_vars

\* the object a wrapper makes its call on, read from the host directly: the
\* slot's entity when it is a player controller, the entity its pawn handle
\* refers to, or the item services that entity points to
HandleOf(fn, host) ==
    LET controller == IF host.classname \in { cs_player_controller, player_controller }
                      THEN host.entity ELSE NULL
        pawn == IF controller # NULL /\ host.m_hPlayerPawn # InvalidHandle
                THEN host.byIndex[70] ELSE NULL
    IN CASE fn \in { "Respawn", "ChangeTeam" } -> controller
         [] fn \in { "Slay", "Teleport" } -> pawn
         [] fn = "DropWeapons" -> IF pawn # NULL THEN host.m_pItemServices ELSE NULL

\* C37: a game-function wrapper (Respawn, ChangeTeam, Slay, Teleport,
\* DropWeapons) makes at most one virtual call, and makes it only when its
\* slot index is non-negative, which it is not before GameFunctions_Initialize
\* has run, and its controller, pawn or item-services handle is non-null; the
\* call then goes through that index on that handle. Otherwise the wrapper
\* returns without calling anything.
C37_NoCallThroughUnresolvedSlot ==
    /\ gameFuncCall.fn # "none" =>
         /\ Len(gameFuncCall.calls) <= 1
         /\ \A i \in 1..Len(gameFuncCall.calls) :
               /\ gameFuncCall.offset >= 0
               /\ gameFuncCall.offset # -1
               /\ HandleOf(gameFuncCall.fn, gameFuncCall.host[1]) # NULL
               /\ gameFuncCall.calls[i].index = gameFuncCall.offset
               /\ gameFuncCall.calls[i].instance =
                    HandleOf(gameFuncCall.fn, gameFuncCall.host[1])
    /\ gameFunctions = NewGameFunctions => gameFuncCall.calls = << >>

\* DropWeapons, after initialization under the complete gamedata, called
\* RemoveWeapons through slot 24 of the item services of the slot's pawn
C37_Witness ==
    /\ gameFuncCall.fn = "DropWeapons"
    /\ gameFunctions.s_offsetRemoveWeapons = 24
    /\ gameFuncCall.calls = << CallVirtual(ServicesAddr, 24, << >>) >>

(***************************************************************************)
(* SpecUnload: the host loads and unloads the plugin in any order, early   *)
(* and late, with an error buffer of any size or none, while               *)
(* AllPluginsLoaded, the first game frame and LoadEventsFromFile arrive in *)
(* between.                                                                *)
(***************************************************************************)
NextUnload ==
    \/ \E a \in LoadArgs : Load(a[1], a[2], a[3], a[4], a[5], a[6], a[7])
    \/ \E buf \in ErrorBuffers : Unload(buf[1], buf[2])
    \/ \E a \in AllPluginsLoadedArgs : AllPluginsLoaded(a[1], a[2], a[3])
    \/ HookGameFrame
    \/ HookLoadEventsFromFile

SpecUnload == InitPlugin /\ [][NextUnload]_vars

\* C38: an Unload called while the server is not fully initialized returns
\* false, leaves its message in a host buffer that has room for a character,
\* and changes nothing else: the bridge stays initialized and every hook and
\* detour stays as it was. The fully-initialized flag is never reset once
\* set, and an Unload called while it is set returns true with everything
\* torn down: the bridge shut down, the SourceHook, FireEvent and
\* LoadEventsFromFile hooks and the entity listener removed, and no detour
\* left installed.
C38_EarlyUnloadRefused ==
    [][ /\ plugin.g_bServerFullyInitialized => plugin'.g_bServerFullyInitialized
        /\ pluginCall'.op = "Unload" =>
             IF ~plugin.g_bServerFullyInitialized
             THEN /\ ~pluginCall'.ret
                  /\ ( pluginCall'.error.buffer /\ pluginCall'.error.maxlen > 1 ) =>
                        /\ pluginCall'.error.text # << >>
                        /\ pluginCall'.error.text =
                             SubSeq(CannotUnloadText, 1,
                                    Min({ Len(CannotUnloadText),
                                          pluginCall'.error.maxlen - 1 }))
                  /\ bridge.g_initialized /\ bridge'.g_initialized
                  /\ UNCHANGED << plugin, procVars, scanVars, configVars, bridgeVars,
                                  detourVars, schemaVars >>
             ELSE /\ pluginCall'.ret
                  /\ ~bridge'.g_initialized /\ bridge'.g_goLib = NULL
                  /\ ~plugin'.loaded /\ ~plugin'.sourceHooks
                  /\ ~plugin'.g_iLoadEventsFromFileHookId
                  /\ ~plugin'.g_bFireEventHooked /\ plugin'.fireEventHooks = 0
                  /\ ~plugin'.entityListener
                  /\ damageHook'.s_pDamageHook = NULL
                  /\ chatManager'.s_pFunchook = NULL
                  /\ InstalledHooks(funchooks') = {} ]_vars

\* C39: the pair of FireEvent hooks is on the captured event manager at most
\* once: it is never added while installed and removed only when installed;
\* once the event manager is captured, the hooks are installed after every
\* AllPluginsLoaded and every LoadEventsFromFile, and stay installed until
\* an Unload that returns true.
C39_FireEventHookedOnce ==
    [][ /\ plugin'.fireEventHooks \in { 0, 1 }
        /\ plugin'.fireEventHooks > plugin.fireEventHooks => plugin.fireEventHooks = 0
        /\ plugin'.fireEventHooks < plugin.fireEventHooks => plugin.fireEventHooks = 1
        /\ ( /\ pluginCall'.op \in { "AllPluginsLoaded", "Hook_LoadEventsFromFile" }
             /\ plugin'.gs_pGameEventManager ) => plugin'.fireEventHooks = 1
        /\ ( plugin.fireEventHooks = 1 /\ plugin'.fireEventHooks = 0 ) =>
              ( pluginCall'.op = "Unload" /\ pluginCall'.ret ) ]_vars

\* C39, amended: the pair of FireEvent hooks is on the captured event manager
\* at most once: it is never added while installed and removed only when
\* installed; the hooks are installed after every AllPluginsLoaded that finds
\* the event manager captured and after the LoadEventsFromFile that captures
\* it, a LoadEventsFromFile that finds it captured already adds nothing, and
\* installed hooks stay until an Unload that returns true.
C39_HookedByCaptureOrAllPluginsLoaded ==
    [][ /\ plugin'.fireEventHooks \in { 0, 1 }
        /\ plugin'.fireEventHooks > plugin.fireEventHooks => plugin.fireEventHooks = 0
        /\ plugin'.fireEventHooks < plugin.fireEventHooks => plugin.fireEventHooks = 1
        /\ ( pluginCall'.op = "AllPluginsLoaded" /\ plugin'.gs_pGameEventManager ) =>
              plugin'.fireEventHooks = 1
        /\ pluginCall'.op = "Hook_LoadEventsFromFile" =>
              /\ plugin'.gs_pGameEventManager
              /\ plugin'.fireEventHooks =
                    IF plugin.gs_pGameEventManager THEN plugin.fireEventHooks ELSE 1
        /\ ( plugin.fireEventHooks = 1 /\ plugin'.fireEventHooks = 0 ) =>
              ( pluginCall'.op = "Unload" /\ pluginCall'.ret ) ]_vars

\* after an Unload and a second Load, LoadEventsFromFile found the event
\* manager captured and the hooks not installed
C39_Witness ==
    /\ pluginCall.op = "Hook_LoadEventsFromFile"
    /\ plugin.gs_pGameEventManager /\ plugin.g_loadCount = 2
    /\ plugin.loaded /\ ~plugin.g_bFireEventHooked /\ plugin.fireEventHooks = 0

====
